---------------------------- MODULE Spec2Model ----------------------------
(***************************************************************************)
(* A model of pygot: the identifier case converter (snake_case and         *)
(* camel_case), the structural encoder and decoder (jsonify / unjsonify)   *)
(* of pygot/serialisation.py, and the static catalog registry              *)
(* (Registry / StaticData) of pygot/static.py.                             *)
(*                                                                         *)
(* Python strings are sequences of one-character strings, so that the      *)
(* character-level conversions are computed, not assumed.                  *)
(***************************************************************************)
EXTENDS Integers, Sequences, FiniteSets, TLC

VARIABLES
    string,          \* the argument of snake_case / camel_case
    caseResult,      \* what the last case conversion returned or raised
    obj,             \* the Python value handed to jsonify
    camel_case_keys, \* jsonify / unjsonify option
    arg_struct,      \* jsonify option
    jsonResult,      \* what jsonify returned or raised
    unjsonResult,    \* what unjsonify of jsonResult returned or raised
    namespace,       \* the classes importable by (module, name) at decode time
    registry,        \* every category: its name, annotations and __registry__
    instances,       \* the dataclass instances built from members
    last             \* the outcome of the last registry operation

vars == <<string, caseResult, obj, camel_case_keys, arg_struct, jsonResult,
          unjsonResult, namespace, registry, instances, last>>

caseVars == <<string, caseResult>>
jsonVars == <<obj, camel_case_keys, arg_struct, jsonResult, unjsonResult,
             namespace>>
staticVars == <<registry, instances, last>>

-----------------------------------------------------------------------------
(* Characters and strings.                                                 *)

ascii_lowercase ==
    <<"a","b","c","d","e","f","g","h","i","j","k","l","m",
      "n","o","p","q","r","s","t","u","v","w","x","y","z">>

ascii_uppercase ==
    <<"A","B","C","D","E","F","G","H","I","J","K","L","M",
      "N","O","P","Q","R","S","T","U","V","W","X","Y","Z">>

digits == {"0","1","2","3","4","5","6","7","8","9"}

Range(f) == {f[i] : i \in DOMAIN f}

UpperLetters == Range(ascii_uppercase)

LowerLetters == Range(ascii_lowercase)

ascii_letters == LowerLetters \cup UpperLetters

\* str.isupper / str.islower / str.isalpha of one ASCII character.
IsUpper(c) == c \in UpperLetters

IsLower(c) == c \in LowerLetters

IsAlpha(c) == c \in ascii_letters

\* each upper-case letter with its lower-case form, and the reverse
LowerOf ==
    [c \in UpperLetters |->
        ascii_lowercase[CHOOSE i \in 1..26 : ascii_uppercase[i] = c]]

UpperOf ==
    [c \in LowerLetters |->
        ascii_uppercase[CHOOSE i \in 1..26 : ascii_lowercase[i] = c]]

\* str.lower / str.upper of one character.
LowerChar(c) == IF IsUpper(c) THEN LowerOf[c] ELSE c

UpperChar(c) == IF IsLower(c) THEN UpperOf[c] ELSE c

\* str.lower of a string.
Lower(s) == [i \in 1..Len(s) |-> LowerChar(s[i])]

\* A capitalize that only lower-cases.
Capitalize_Lower(s) == [i \in 1..Len(s) |-> LowerChar(s[i])]

\* str.capitalize: first character upper-cased, the rest lower-cased.
Capitalize(s) ==
    [i \in 1..Len(s) |-> IF i = 1 THEN UpperChar(s[i]) ELSE LowerChar(s[i])]

\* str.split(sep) for a one-character separator: the list of segments.
RECURSIVE SplitFrom(_, _, _, _)
SplitFrom(s, sep, i, word) ==
    IF i > Len(s) THEN <<word>>
    ELSE IF s[i] = sep
         THEN <<word>> \o SplitFrom(s, sep, i + 1, <<>>)
         ELSE SplitFrom(s, sep, i + 1, Append(word, s[i]))

Split(s, sep) == SplitFrom(s, sep, 1, <<>>)

\* What a call returns: a value, or the exception it raised.
Return(v) == [exc |-> "none", value |-> v]

Raise(e) == [exc |-> e, value |-> <<>>]

-----------------------------------------------------------------------------
(* The identifier case converter.                                          *)

\* A guard that looks at the first character only.
InvalidIdentifier_FirstOnly(s) ==
    s # <<>> /\ s[1] \notin (ascii_letters \cup digits \cup {"_"})

\* The guard of both converters: set(string) - set(ascii_letters + digits + '_')
InvalidIdentifier(s) ==
    Range(s) \ (ascii_letters \cup digits \cup {"_"}) # {}

\* A loop whose flag a digit or an underscore leaves as it is.
RECURSIVE SnakeLoop_LettersOnly(_, _, _)
SnakeLoop_LettersOnly(s, i, uppercase) ==
    IF i > Len(s) THEN <<>>
    ELSE LET c == s[i] IN
         IF ~IsAlpha(c) THEN <<c>> \o SnakeLoop_LettersOnly(s, i + 1, uppercase)
         ELSE IF IsLower(c) THEN <<c>> \o SnakeLoop_LettersOnly(s, i + 1, FALSE)
         ELSE (IF ~uppercase THEN <<"_">> ELSE <<>>)
              \o <<LowerChar(c)>> \o SnakeLoop_LettersOnly(s, i + 1, TRUE)

\* The loop of snake_case, with its "in an uppercase series" flag.
RECURSIVE SnakeLoop(_, _, _)
SnakeLoop(s, i, uppercase) ==
    IF i > Len(s) THEN <<>>
    ELSE LET c == s[i] IN
         IF ~IsAlpha(c) THEN <<c>> \o SnakeLoop(s, i + 1, FALSE)
         ELSE IF IsLower(c) THEN <<c>> \o SnakeLoop(s, i + 1, FALSE)
         ELSE (IF ~uppercase THEN <<"_">> ELSE <<>>)
              \o <<LowerChar(c)>> \o SnakeLoop(s, i + 1, TRUE)

\* A converter that starts outside an uppercase series.
snake_case_FlagDown(s) ==
    IF InvalidIdentifier(s)
    THEN Raise("ValueError")
    ELSE Return(SnakeLoop(s, 1, FALSE))

snake_case(s) ==
    IF InvalidIdentifier(s)
    THEN Raise("ValueError")
    ELSE Return(SnakeLoop(s, 1, TRUE))

\* A loop that emits nothing for an empty word.
RECURSIVE CamelLoop_DropEmpty(_, _)
CamelLoop_DropEmpty(words, first_word) ==
    IF words = <<>> THEN <<>>
    ELSE LET word == Head(words) IN
         IF word = <<>> THEN CamelLoop_DropEmpty(Tail(words), first_word)
         ELSE IF first_word THEN word \o CamelLoop_DropEmpty(Tail(words), FALSE)
         ELSE Capitalize(word) \o CamelLoop_DropEmpty(Tail(words), first_word)

\* The loop of camel_case over the words of string.lower().split('_').
RECURSIVE CamelLoop(_, _)
CamelLoop(words, first_word) ==
    IF words = <<>> THEN <<>>
    ELSE LET word == Head(words) IN
         IF word = <<>> THEN <<"_">> \o CamelLoop(Tail(words), first_word)
         ELSE IF first_word THEN word \o CamelLoop(Tail(words), FALSE)
         ELSE Capitalize(word) \o CamelLoop(Tail(words), first_word)

\* A converter that splits the string without lowercasing it first.
camel_case_NoLower(s) ==
    IF InvalidIdentifier(s)
    THEN Raise("ValueError")
    ELSE IF s = <<>> THEN Return(s)
    ELSE Return(CamelLoop(Split(s, "_"), TRUE))

camel_case(s) ==
    IF InvalidIdentifier(s)
    THEN Raise("ValueError")
    ELSE IF s = <<>> THEN Return(s)
    ELSE Return(CamelLoop(Split(Lower(s), "_"), TRUE))

-----------------------------------------------------------------------------
(* Python values.  Every value is a pair <<t, v>>: t is the runtime type   *)
(* and v the payload.  A float is named by its literal; "nan", "inf" and   *)
(* "-inf" are the three special values.  A dict is the sequence of its     *)
(* <<key, value>> items in insertion order, its keys distinct; the keys    *)
(* are str throughout, so the isinstance(k, str) tests of the code hold.   *)
(* A dataclass instance carries its class (module, name) and its fields in *)
(* declaration order.                                                      *)

PyStr(s) == <<"str", s>>

PyInt(n) == <<"int", n>>

PyBool(b) == <<"bool", b>>

PyNone == <<"none", "None">>

PyFloat(x) == <<"float", x>>

PyList(seq) == <<"list", seq>>

PyTuple(seq) == <<"tuple", seq>>

PyDict(items) == <<"dict", items>>

PyDataclass(module, name, fields) ==
    <<"dataclass", [module |-> module, name |-> name, fields |-> fields]>>

\* An instance of a dataclass that inherits JSONMixin.
PyJsonMixin(module, name, fields) ==
    <<"jsonmixin", [module |-> module, name |-> name, fields |-> fields]>>

\* A set: a value of a type no handler is registered for.
PySet(elems) == <<"set", elems>>

\* A catalog member as a value: its category's name, its own name and its
\* fixed fields with their values.
PyStatic(category, name, fields) ==
    <<"static", [category |-> category, name |-> name, fields |-> fields]>>

\* An exception travelling up the call stack, in place of a value.
Raised(e) == <<"raise", e>>

IsRaised(x) == x[1] = "raise"

\* The first exception raised while the elements of seq were computed in order.
FirstRaised(seq) == seq[CHOOSE i \in 1..Len(seq) :
                          /\ IsRaised(seq[i])
                          /\ \A j \in 1..(i - 1) : ~IsRaised(seq[j])]

AnyRaised(seq) == \E i \in 1..Len(seq) : IsRaised(seq[i])

\* dict operations on item sequences
DictKeys(items) == {items[i][1] : i \in 1..Len(items)}

DictHas(items, k) == k \in DictKeys(items)

DictGet(items, k) == items[CHOOSE i \in 1..Len(items) : items[i][1] = k][2]

\* d[k] = v: an existing key keeps its position, a new key goes last.
DictSet(items, k, val) ==
    IF DictHas(items, k)
    THEN [i \in 1..Len(items) |-> IF items[i][1] = k THEN <<k, val>> ELSE items[i]]
    ELSE Append(items, <<k, val>>)

\* d.pop(k, None): the items left
DictWithout(items, k) == SelectSeq(items, LAMBDA it : it[1] # k)

\* d.pop(k, None): the value popped
DictPopped(items, k) == IF DictHas(items, k) THEN DictGet(items, k) ELSE PyNone

\* {key(k): v for k, v in items}: later items overwrite earlier ones.
RECURSIVE ReKey(_, _, _)
ReKey(items, key(_), acc) ==
    IF items = <<>> THEN acc
    ELSE ReKey(Tail(items), key, DictSet(acc, key(Head(items)[1]), Head(items)[2]))

_MODULE_KEY == <<"$","m","o","d","u","l","e">>

_NAME_KEY == <<"$","t","y","p","e">>

-----------------------------------------------------------------------------
(* The structural encoder.                                                 *)

Chars_x == <<"x">>

Chars_builtins == <<"b","u","i","l","t","i","n","s">>

Chars_float == <<"f","l","o","a","t">>

Chars_nan == <<"n","a","n">>

Chars_plus_inf == <<"+","i","n","f">>

Chars_minus_inf == <<"-","i","n","f">>

\* math.isinf / math.isnan of a float literal
IsInf(x) == x \in {"inf", "-inf"}

IsNan(x) == x = "nan"

-----------------------------------------------------------------------------
(* Timestamps.  A datetime.datetime is its components and its tzinfo; a    *)
(* tzinfo is the kind of its implementation, the name pytz gives the zone, *)
(* and its utcoffset in minutes.                                           *)

Chars_pygot_serialisation ==
    <<"p","y","g","o","t",".","s","e","r","i","a","l","i","s","a","t","i","o","n">>

Chars_date_time == <<"d","a","t","e","_","t","i","m","e">>

Chars_UTC == <<"U","T","C">>

Chars_year == <<"y","e","a","r">>

Chars_month == <<"m","o","n","t","h">>

Chars_day == <<"d","a","y">>

Chars_hour == <<"h","o","u","r">>

Chars_minute == <<"m","i","n","u","t","e">>

Chars_second == <<"s","e","c","o","n","d">>

Chars_microsecond == <<"m","i","c","r","o","s","e","c","o","n","d">>

Chars_timezone == <<"t","i","m","e","z","o","n","e">>

TzInfo(kind, zone, offset) == [kind |-> kind, zone |-> zone, offset |-> offset]

\* tzinfo is None
NoTz == TzInfo("none", <<>>, 0)

\* pytz.utc, which is also pytz.timezone('UTC')
PytzUTC == TzInfo("pytz", Chars_UTC, 0)

\* datetime.timezone.utc
NativeUTC == TzInfo("timezone.utc", <<>>, 0)

\* a tzinfo that is neither: one of the tests' _CustomTZ(offset)
CustomTZ(offset) == TzInfo("custom", <<>>, offset)

PyDatetime(dt) == <<"datetime", dt>>

DateTime(year, month, day, hour, minute, second, microsecond, tzinfo) ==
    [year |-> year, month |-> month, day |-> day, hour |-> hour,
     minute |-> minute, second |-> second, microsecond |-> microsecond,
     tzinfo |-> tzinfo]

IsLeap(y) == y % 4 = 0 /\ (y % 100 # 0 \/ y % 400 = 0)

DaysInMonth(y, m) ==
    IF m = 2 THEN (IF IsLeap(y) THEN 29 ELSE 28)
    ELSE IF m \in {4, 6, 9, 11} THEN 30 ELSE 31

\* the day before and the day after, as <<year, month, day>>
PrevDay(y, m, d) ==
    IF d > 1 THEN <<y, m, d - 1>>
    ELSE IF m > 1 THEN <<y, m - 1, DaysInMonth(y, m - 1)>>
    ELSE <<y - 1, 12, 31>>

NextDay(y, m, d) ==
    IF d < DaysInMonth(y, m) THEN <<y, m, d + 1>>
    ELSE IF m < 12 THEN <<y, m + 1, 1>>
    ELSE <<y + 1, 1, 1>>

\* A conversion that relabels the zone and keeps the components.
astimezone_Replace(dt, tz) == PyDatetime([dt EXCEPT !.tzinfo = tz])

\* datetime.astimezone(tz) of an aware datetime whose offset is whole
\* minutes, for a tz of offset 0: (self - offset).replace(tzinfo=tz), and
\* OverflowError when that leaves the years 1..9999.  An offset is less
\* than a day, so the date moves by a day at most.
astimezone(dt, tz) ==
    LET m == dt.hour * 60 + dt.minute - dt.tzinfo.offset
        date == IF m < 0 THEN PrevDay(dt.year, dt.month, dt.day)
                ELSE IF m >= 1440 THEN NextDay(dt.year, dt.month, dt.day)
                ELSE <<dt.year, dt.month, dt.day>>
        left == m % 1440
    IN  IF date[1] < 1 \/ date[1] > 9999 THEN Raised("OverflowError")
        ELSE PyDatetime(DateTime(date[1], date[2], date[3], left \div 60,
                                 left % 60, dt.second, dt.microsecond, tz))

DigitChars == <<"0","1","2","3","4","5","6","7","8","9">>

\* str(n) for n >= 0
RECURSIVE Digits(_)
Digits(n) ==
    IF n < 10 THEN <<DigitChars[n + 1]>>
    ELSE Digits(n \div 10) \o <<DigitChars[(n % 10) + 1]>>

\* n in w digits at least, zeros first
ZeroPad(n, w) ==
    LET ds == Digits(n)
    IN  IF Len(ds) >= w THEN ds
        ELSE [i \in 1..(w - Len(ds)) |-> "0"] \o ds

\* obj.strftime('%Y-%m-%dT%H:%M:%S.%f%z'); the C library writes %Y with
\* no padding, and %z is empty for a naive datetime
strftime(dt) ==
    LET off == dt.tzinfo.offset
        abs == IF off < 0 THEN 0 - off ELSE off
        z == IF dt.tzinfo.kind = "none" THEN <<>>
             ELSE <<IF off < 0 THEN "-" ELSE "+">>
                      \o ZeroPad(abs \div 60, 2) \o ZeroPad(abs % 60, 2)
    IN  Digits(dt.year) \o <<"-">> \o ZeroPad(dt.month, 2) \o <<"-">>
            \o ZeroPad(dt.day, 2) \o <<"T">> \o ZeroPad(dt.hour, 2) \o <<":">>
            \o ZeroPad(dt.minute, 2) \o <<":">> \o ZeroPad(dt.second, 2)
            \o <<".">> \o ZeroPad(dt.microsecond, 6) \o z

_jsonify_datetime(o, camel, arg) ==
    IF ~arg THEN PyStr(strftime(o[2]))
    ELSE LET utc == IF o[2].tzinfo.kind = "timezone.utc"
                    THEN PyDatetime([o[2] EXCEPT !.tzinfo = PytzUTC])
                    ELSE o
             coerced == IF utc[2].tzinfo.kind \notin {"none", "pytz"}
                        THEN astimezone(utc[2], PytzUTC)
                        ELSE utc
         IN  IF IsRaised(coerced) THEN coerced
             ELSE LET dt == coerced[2]
                  IN  PyDict(<< <<_MODULE_KEY, PyStr(Chars_pygot_serialisation)>>,
                                <<_NAME_KEY, PyStr(Chars_date_time)>>,
                                <<Chars_year, PyInt(dt.year)>>,
                                <<Chars_month, PyInt(dt.month)>>,
                                <<Chars_day, PyInt(dt.day)>>,
                                <<Chars_hour, PyInt(dt.hour)>>,
                                <<Chars_minute, PyInt(dt.minute)>>,
                                <<Chars_second, PyInt(dt.second)>>,
                                <<Chars_microsecond, PyInt(dt.microsecond)>>,
                                <<Chars_timezone,
                                  IF dt.tzinfo.kind = "none" THEN PyNone
                                  ELSE PyStr(dt.tzinfo.zone)>> >>)

\* date_time(**kwargs): the eight parameters have no default, so the
\* keywords must be exactly they (TypeError); datetime.datetime wants
\* integers (TypeError) in range (ValueError); pytz.timezone knows the
\* zone or raises UnknownTimeZoneError.
date_time(kwargs) ==
    LET parts == <<Chars_year, Chars_month, Chars_day, Chars_hour,
                   Chars_minute, Chars_second, Chars_microsecond>>
        v(k) == DictGet(kwargs, k)
        timezone == v(Chars_timezone)
        naive(tz) == PyDatetime(DateTime(v(Chars_year)[2], v(Chars_month)[2],
                                         v(Chars_day)[2], v(Chars_hour)[2],
                                         v(Chars_minute)[2], v(Chars_second)[2],
                                         v(Chars_microsecond)[2], tz))
    IN  IF DictKeys(kwargs) # Range(parts) \cup {Chars_timezone}
           \/ Len(kwargs) # Len(parts) + 1
        THEN Raised("TypeError")
        ELSE IF \E i \in 1..Len(parts) : v(parts[i])[1] # "int"
        THEN Raised("TypeError")
        ELSE IF \/ v(Chars_year)[2] \notin 1..9999
                \/ v(Chars_month)[2] \notin 1..12
                \/ v(Chars_day)[2] \notin
                       1..DaysInMonth(v(Chars_year)[2], v(Chars_month)[2])
                \/ v(Chars_hour)[2] \notin 0..23
                \/ v(Chars_minute)[2] \notin 0..59
                \/ v(Chars_second)[2] \notin 0..59
                \/ v(Chars_microsecond)[2] \notin 0..999999
        THEN Raised("ValueError")
        ELSE IF timezone = PyNone THEN naive(NoTz)
        ELSE IF timezone = PyStr(Chars_UTC) THEN naive(PytzUTC)
        ELSE Raised("UnknownTimeZoneError")

RECURSIVE jsonify(_, _, _)

\* A float handler that forgets the sign of an infinity.
_jsonify_float_Unsigned(o, camel, arg) ==
    IF ~IsInf(o[2]) /\ ~IsNan(o[2]) THEN o
    ELSE LET replacement == IF IsInf(o[2]) THEN Chars_plus_inf ELSE Chars_nan
         IN  IF arg
             THEN PyDict(<< <<_MODULE_KEY, PyStr(Chars_builtins)>>,
                            <<_NAME_KEY, PyStr(Chars_float)>>,
                            <<Chars_x, PyStr(replacement)>> >>)
             ELSE PyStr(replacement)

_jsonify_float(o, camel, arg) ==
    IF ~IsInf(o[2]) /\ ~IsNan(o[2]) THEN o
    ELSE LET replacement == IF IsInf(o[2])
                            THEN (IF o[2] = "inf" THEN Chars_plus_inf
                                                 ELSE Chars_minus_inf)
                            ELSE Chars_nan
         IN  IF arg
             THEN PyDict(<< <<_MODULE_KEY, PyStr(Chars_builtins)>>,
                            <<_NAME_KEY, PyStr(Chars_float)>>,
                            <<Chars_x, PyStr(replacement)>> >>)
             ELSE PyStr(replacement)

_jsonify_sequence(o, camel, arg) ==
    LET elems == [i \in 1..Len(o[2]) |-> jsonify(o[2][i], camel, arg)]
    IN  IF AnyRaised(elems) THEN FirstRaised(elems) ELSE PyList(elems)

\* A mapping handler that never converts a key.
_jsonify_mapping_KeepKeys(o, camel, arg) ==
    LET vals == [i \in 1..Len(o[2]) |-> jsonify(o[2][i][2], camel, arg)]
    IN  IF AnyRaised(vals) THEN FirstRaised(vals)
        ELSE PyDict([i \in 1..Len(o[2]) |-> <<o[2][i][1], vals[i]>>])

_jsonify_mapping(o, camel, arg) ==
    LET vals == [i \in 1..Len(o[2]) |-> jsonify(o[2][i][2], camel, arg)]
        \* str keys go through jsonify unchanged
        d == [i \in 1..Len(o[2]) |-> <<o[2][i][1], vals[i]>>]
    IN  IF AnyRaised(vals) THEN FirstRaised(vals)
        ELSE IF ~camel THEN PyDict(d)
        ELSE IF \E k \in DictKeys(d) : InvalidIdentifier(k)
             THEN Raised("ValueError")
             ELSE PyDict(ReKey(d, LAMBDA k : camel_case(k).value, <<>>))

_jsonify_dataclass(o, camel, arg) ==
    LET fields == o[2].fields
        \* one loop iteration: the key is computed first, then the value
        step(i) == IF camel /\ InvalidIdentifier(fields[i][1])
                   THEN Raised("ValueError")
                   ELSE jsonify(fields[i][2], camel, arg)
        vals == [i \in 1..Len(fields) |-> step(i)]
        key(k) == IF camel THEN camel_case(k).value ELSE k
        d == ReKey([i \in 1..Len(fields) |-> <<fields[i][1], vals[i]>>],
                   key, <<>>)
    IN  IF AnyRaised(vals) THEN FirstRaised(vals)
        ELSE IF arg
             THEN PyDict(DictSet(DictSet(d, _MODULE_KEY, PyStr(o[2].module)),
                                 _NAME_KEY, PyStr(o[2].name)))
             ELSE PyDict(d)

Chars_name == <<"n","a","m","e">>

Chars_pygot_static == <<"p","y","g","o","t",".","s","t","a","t","i","c">>

\* The handler pygot.static registers for catalog members.  With arg_struct
\* it evaluates serialisation.MODULE_KEY, a name the module serialisation
\* does not define (it defines _MODULE_KEY): AttributeError.
_jsonify_static_data(o, camel, arg) ==
    LET d == jsonify(PyDict(DictSet(o[2].fields, Chars_name, PyStr(o[2].name))),
                     camel, arg)
    IN  IF IsRaised(d) \/ ~arg THEN d
        ELSE Raised("AttributeError")

\* dataclasses.asdict: dataclass instances become dicts of their fields,
\* lists, tuples and dicts are rebuilt around their converted items, every
\* other value is copied.
RECURSIVE asdict(_)
asdict(v) ==
    CASE v[1] \in {"dataclass", "jsonmixin"} ->
            PyDict([i \in 1..Len(v[2].fields) |->
                       <<v[2].fields[i][1], asdict(v[2].fields[i][2])>>])
      [] v[1] = "list" -> PyList([i \in 1..Len(v[2]) |-> asdict(v[2][i])])
      [] v[1] = "tuple" -> PyTuple([i \in 1..Len(v[2]) |-> asdict(v[2][i])])
      [] v[1] = "dict" ->
            PyDict([i \in 1..Len(v[2]) |-> <<v[2][i][1], asdict(v[2][i][2])>>])
      [] OTHER -> v

\* JSONMixin.to_json: the keys of asdict(self) through camel_case, the
\* values as asdict left them.
to_json(o) ==
    LET self_dict == asdict(o)[2]
    IN  IF \E k \in DictKeys(self_dict) : InvalidIdentifier(k)
        THEN Raised("ValueError")
        ELSE PyDict(ReKey(self_dict, LAMBDA k : camel_case(k).value, <<>>))

\* A handler that tags what to_json returned whatever arg_struct is.
_jsonify_jsonmixin_AlwaysTagged(o, camel, arg) ==
    LET json == to_json(o)
    IN  IF IsRaised(json) THEN json
        ELSE PyDict(DictSet(DictSet(json[2], _MODULE_KEY, PyStr(o[2].module)),
                            _NAME_KEY, PyStr(o[2].name)))

_jsonify_jsonmixin(o, camel, arg) ==
    LET json == to_json(o)
    IN  IF IsRaised(json) \/ ~arg THEN json
        ELSE PyDict(DictSet(DictSet(json[2], _MODULE_KEY, PyStr(o[2].module)),
                            _NAME_KEY, PyStr(o[2].name)))

\* functools.singledispatch on the runtime type; str, int, bool and None have
\* no registered handler and leave through the "unsupported type" path, as
\* a set does.
jsonify(o, camel, arg) ==
    CASE o[1] = "float" -> _jsonify_float(o, camel, arg)
      [] o[1] = "datetime" -> _jsonify_datetime(o, camel, arg)
      [] o[1] = "jsonmixin" -> _jsonify_jsonmixin(o, camel, arg)
      [] o[1] = "static" -> _jsonify_static_data(o, camel, arg)
      [] o[1] \in {"list", "tuple"} -> _jsonify_sequence(o, camel, arg)
      [] o[1] = "dict" -> _jsonify_mapping(o, camel, arg)
      [] o[1] = "dataclass" -> _jsonify_dataclass(o, camel, arg)
      [] OTHER -> o

-----------------------------------------------------------------------------
(* The structural decoder.                                                 *)

\* A class reachable as getattr(importlib.import_module(module), name).
Class(module, name, kind, fields) ==
    [module |-> module, name |-> name, kind |-> kind, fields |-> fields]

\* float(x) for the arguments the decoder can hand it
FloatOf(x) ==
    CASE x[1] = "float" -> x
      [] x[1] = "str" ->
            CASE x[2] = Chars_nan -> PyFloat("nan")
              [] x[2] \in {Chars_plus_inf, <<"i","n","f">>} -> PyFloat("inf")
              [] x[2] = Chars_minus_inf -> PyFloat("-inf")
              [] OTHER -> Raised("ValueError")
      [] OTHER -> Raised("TypeError")

\* importlib.import_module(module) then getattr(..., name), with the
\* except (ImportError, AttributeError) clause around both: the exception
\* that leaves the try statement, or "none".
LocateError(module, name, ns) ==
    IF module[1] # "str" THEN "ValueError"
    \* import_module(''): ValueError('Empty module name')
    ELSE IF module[2] = <<>> THEN "ValueError"
    \* a relative name and no package: import_module raises TypeError
    ELSE IF module[2][1] = "." THEN "TypeError"
    ELSE IF \A c \in ns : c.module # module[2] THEN "ValueError"
    ELSE IF name[1] # "str" THEN "TypeError"
    ELSE IF \A c \in ns : ~(c.module = module[2] /\ c.name = name[2])
         THEN "ValueError"
         ELSE "none"

Locate(module, name, ns) ==
    CHOOSE c \in ns : c.module = module[2] /\ c.name = name[2]

\* cls(**kwargs) for a dataclass without defaults: the keywords must be
\* exactly the fields, else TypeError.
Construct(cls, kwargs) ==
    IF DictKeys(kwargs) = Range(cls.fields) /\ Len(kwargs) = Len(cls.fields)
    THEN PyDataclass(cls.module, cls.name,
                     [i \in 1..Len(cls.fields) |->
                         <<cls.fields[i], DictGet(kwargs, cls.fields[i])>>])
    ELSE Raised("TypeError")

\* A decoder that leaves the keys as they arrive.
SnakeKeys_Verbatim(mapping) == PyDict(mapping)

\* A decoder that converts the keys it can and keeps the others.
SnakeKeys_Lenient(mapping) ==
    PyDict(ReKey(mapping,
                 LAMBDA k : IF InvalidIdentifier(k) THEN k
                            ELSE snake_case(k).value, <<>>))

\* {snake_case(k): v for k, v in mapping.items()}
SnakeKeys(mapping) ==
    IF \E k \in DictKeys(mapping) : InvalidIdentifier(k)
    THEN Raised("ValueError")
    ELSE PyDict(ReKey(mapping, LAMBDA k : snake_case(k).value, <<>>))

\* JSONMixin.from_json: cls(**{snake_case(k): v for k, v in json.items()}),
\* what it raises leaving as it is
from_json(cls, json) ==
    LET kwargs == SnakeKeys(json)
    IN  IF IsRaised(kwargs) THEN kwargs
        ELSE IF DictKeys(kwargs[2]) = Range(cls.fields)
                   /\ Len(kwargs[2]) = Len(cls.fields)
        THEN PyJsonMixin(cls.module, cls.name,
                         [i \in 1..Len(cls.fields) |->
                             <<cls.fields[i], DictGet(kwargs[2], cls.fields[i])>>])
        ELSE Raised("TypeError")

RECURSIVE unjsonify(_, _, _)

\* The isinstance(json, Mapping) branch.
UnjsonifyMapping(json, camel, ns) ==
    LET vals == [i \in 1..Len(json[2]) |-> unjsonify(json[2][i][2], camel, ns)]
        decoded == [i \in 1..Len(json[2]) |-> <<json[2][i][1], vals[i]>>]
        module == DictPopped(decoded, _MODULE_KEY)
        name == DictPopped(decoded, _NAME_KEY)
        mapping == DictWithout(DictWithout(decoded, _MODULE_KEY), _NAME_KEY)
        cls == Locate(module, name, ns)
    IN  IF AnyRaised(vals) THEN FirstRaised(vals)
        ELSE IF module = PyNone \/ name = PyNone
             THEN (IF camel THEN SnakeKeys(mapping) ELSE PyDict(mapping))
        ELSE IF LocateError(module, name, ns) # "none"
             THEN Raised(LocateError(module, name, ns))
        ELSE IF cls.kind = "jsonmixin" THEN from_json(cls, mapping)
        ELSE IF cls.kind = "float"
             THEN (IF DictHas(mapping, Chars_x)
                   THEN FloatOf(DictGet(mapping, Chars_x))
                   ELSE Raised("KeyError"))
        ELSE LET kwargs == IF camel THEN SnakeKeys(mapping) ELSE PyDict(mapping)
                 new == IF IsRaised(kwargs) THEN kwargs
                        ELSE IF cls.kind = "date_time" THEN date_time(kwargs[2])
                        ELSE Construct(cls, kwargs[2])
             IN  \* except (TypeError, ValueError): raise ValueError
                 IF IsRaised(new) /\ new[2] \in {"TypeError", "ValueError"}
                 THEN Raised("ValueError")
                 ELSE new

unjsonify(json, camel, ns) ==
    CASE json[1] \in {"str", "int", "float", "bool", "none"} -> json
      [] json[1] \in {"list", "tuple"} ->
            LET elems == [i \in 1..Len(json[2]) |-> unjsonify(json[2][i], camel, ns)]
            IN  IF AnyRaised(elems) THEN FirstRaised(elems) ELSE PyList(elems)
      [] json[1] = "dict" -> UnjsonifyMapping(json, camel, ns)
      [] OTHER -> json

\* Python's == on the values above: NaN differs from everything, itself
\* included; the two zeros are equal; a list never equals a tuple; dicts
\* compare as mappings, whatever their insertion order; dataclass instances
\* compare class and fields.
IsZero(x) == x[1] = "float" /\ x[2] \in {"0.0", "-0.0"}

RECURSIVE PyEq(_, _)
PyEq(a, b) ==
    IF a[1] # b[1] THEN FALSE
    ELSE CASE a[1] = "float" ->
                /\ ~IsNan(a[2]) /\ ~IsNan(b[2])
                /\ (a[2] = b[2] \/ (IsZero(a) /\ IsZero(b)))
           [] a[1] \in {"list", "tuple"} ->
                /\ Len(a[2]) = Len(b[2])
                /\ \A i \in 1..Len(a[2]) : PyEq(a[2][i], b[2][i])
           [] a[1] = "dict" ->
                /\ DictKeys(a[2]) = DictKeys(b[2])
                /\ \A k \in DictKeys(a[2]) : PyEq(DictGet(a[2], k), DictGet(b[2], k))
           [] a[1] \in {"dataclass", "jsonmixin"} ->
                /\ a[2].module = b[2].module /\ a[2].name = b[2].name
                /\ Len(a[2].fields) = Len(b[2].fields)
                /\ \A i \in 1..Len(a[2].fields) :
                      /\ a[2].fields[i][1] = b[2].fields[i][1]
                      /\ PyEq(a[2].fields[i][2], b[2].fields[i][2])
           [] OTHER -> a = b

-----------------------------------------------------------------------------
(* Bounds and input sets.                                                  *)

\* longest identifier handed to the case converters
MaxLen == 4

\* longest list or tuple
MaxSeqLen == 2

\* most items of a dict, most fields of a dataclass
MaxItems == 2

\* the characters identifiers are drawn from: letters of both cases, a
\* digit, the underscore, and three characters no identifier may hold
CaseAlphabet == {"a", "b", "A", "B", "2", "_", "@", " ", "!"}

SeqsUpTo(S, n) == UNION {[1..k -> S] : k \in 0..n}

\* sequences of 1..n items without a repeated element
DistinctSeqs(S, n) ==
    {s \in SeqsUpTo(S, n) : Len(s) > 0 /\ \A i, j \in 1..Len(s) : i # j => s[i] # s[j]}

CaseInputs == SeqsUpTo(CaseAlphabet, MaxLen)

Chars_quite_nested == <<"q","u","i","t","e","_","n","e","s","t","e","d">>

Chars_quiteNested == <<"q","u","i","t","e","N","e","s","t","e","d">>

Chars_someReally == <<"s","o","m","e","R","e","a","l","l","y">>

Chars_somereally == <<"s","o","m","e","r","e","a","l","l","y">>

Chars_one_2 == <<"o","n","e","_","2">>

Chars_thing == <<"t","h","i","n","g">>

Chars_app == <<"a","p","p">>

Chars_Record == <<"R","e","c","o","r","d">>

\* names a dataclass field may have
FieldNames == {Chars_quite_nested, Chars_someReally, Chars_one_2}

\* keys a dict may have
KeyNames == FieldNames \cup {_MODULE_KEY}

Floats == {"1.5", "-0.0", "nan", "inf", "-inf"}

Scalars == {PyStr(Chars_thing), PyInt(1), PyBool(TRUE), PyNone}
               \cup {PyFloat(x) : x \in Floats}

\* the scalars found inside containers
Leaves == {PyStr(Chars_thing), PyInt(1), PyFloat("nan"), PyFloat("inf"),
           PyFloat("-0.0")}

SeqsOf(values) ==
    {PyList(s) : s \in SeqsUpTo(values, MaxSeqLen)}
        \cup {PyTuple(s) : s \in SeqsUpTo(values, MaxSeqLen)}

\* dicts of at most n items over the given keys and values
DictsOf(keys, values, n) ==
    {PyDict(<<>>)} \cup
    UNION {{PyDict([i \in 1..Len(ks) |-> <<ks[i], vs[i]>>]) :
                vs \in [1..Len(ks) -> values]} : ks \in DistinctSeqs(keys, n)}

\* instances of the dataclass app.Record declared with the given fields
RecordsOf(fields, values) ==
    {PyDataclass(Chars_app, Chars_Record,
                 [i \in 1..Len(fields) |-> <<fields[i], vs[i]>>]) :
         vs \in [1..Len(fields) -> values]}

\* what a dataclass field may hold besides a leaf or a nested record
Containers ==
    {PyList(<<PyStr(Chars_thing)>>), PyTuple(<<PyStr(Chars_thing)>>),
     PyDict(<< <<Chars_quite_nested, PyInt(1)>> >>),
     PyDict(<< <<Chars_someReally, PyInt(1)>> >>),
     PyDict(<< <<_MODULE_KEY, PyStr(Chars_thing)>> >>)}

\* values that hold no dataclass instance
PlainInputs ==
    Scalars
        \cup SeqsOf(Leaves)
        \cup DictsOf(KeyNames, Leaves, MaxItems)
        \cup DictsOf(KeyNames, DictsOf(KeyNames, Leaves, 1), 1)

\* instances of app.Record, their fields holding leaves, containers or
\* another instance
RecordInputs(fields) ==
    RecordsOf(fields, Leaves \cup Containers \cup RecordsOf(fields, {PyInt(1)}))

Chars_Mixed == <<"M","i","x","e","d">>

\* instances of app.Mixed, a dataclass that inherits JSONMixin and is
\* declared with the given fields, alone and inside a list
MixinsOf(fields, values) ==
    {PyJsonMixin(Chars_app, Chars_Mixed,
                 [i \in 1..Len(fields) |-> <<fields[i], vs[i]>>]) :
         vs \in [1..Len(fields) -> values]}

\* what a field of app.Mixed holds
MixinValues ==
    {PyInt(1), PyFloat("nan"), PyTuple(<<PyStr(Chars_thing)>>),
     PyDict(<< <<Chars_quite_nested, PyInt(1)>> >>)}

MixinInputs(fields) ==
    MixinsOf(fields, MixinValues \cup RecordsOf(fields, {PyInt(1)}))
        \cup {PyList(<<m>>) : m \in MixinsOf(fields, {PyInt(1)})}

Chars_quite_Nested == <<"q","u","i","t","e","_","N","e","s","t","e","d">>

\* mappings two of whose keys differ in the case of a letter only
CollidingInputs ==
    {PyDict(<< <<Chars_quite_nested, PyInt(1)>>, <<k, PyStr(Chars_thing)>> >>) :
        k \in {Chars_quite_Nested, Chars_quiteNested}}

\* values of a type jsonify has no handler for, alone and inside a list
UnsupportedInputs ==
    {PySet(<<PyInt(1)>>), PyList(<<PySet(<<PyInt(1)>>)>>)}

\* float is always importable; app.Record and app.Mixed are declared with
\* the given fields
BuiltinClasses == {Class(Chars_builtins, Chars_float, "float", <<>>)}

NamespaceWith(fields) ==
    BuiltinClasses \cup {Class(Chars_app, Chars_Record, "dataclass", fields),
                         Class(Chars_app, Chars_Mixed, "jsonmixin", fields)}

Pending == <<"pending", "">>

-----------------------------------------------------------------------------
(* The case converters applied to an input.                                *)

CaseIdle ==
    /\ obj = PyNone /\ camel_case_keys = FALSE /\ arg_struct = FALSE
    /\ jsonResult = Pending /\ unjsonResult = Pending
    /\ namespace = BuiltinClasses

\* what the last operation on the catalog was, how it ended, the category
\* and the name it was given, its other arguments, the key of the member it
\* returned and the instance it made or changed
Called(op, exc, cat, name, args, result, inst) ==
    [op |-> op, exc |-> exc, cat |-> cat, name |-> name, args |-> args,
     result |-> result, inst |-> inst]

NoCall == Called("none", "none", <<>>, <<>>, <<>>, <<>>, 0)

StaticIdle == registry = <<>> /\ instances = <<>> /\ last = NoCall

CaseInit ==
    /\ string \in CaseInputs
    /\ caseResult = [op |-> "none", result |-> Return(<<>>)]
    /\ CaseIdle /\ StaticIdle

SnakeCase ==
    /\ caseResult.op = "none"
    /\ caseResult' = [op |-> "snake_case", result |-> snake_case(string)]
    /\ UNCHANGED <<string, obj, camel_case_keys, arg_struct, jsonResult,
                   unjsonResult, namespace, staticVars>>

CamelCase ==
    /\ caseResult.op = "none"
    /\ caseResult' = [op |-> "camel_case", result |-> camel_case(string)]
    /\ UNCHANGED <<string, obj, camel_case_keys, arg_struct, jsonResult,
                   unjsonResult, namespace, staticVars>>

CaseNext == SnakeCase \/ CamelCase

SpecCase == CaseInit /\ [][CaseNext]_vars

-----------------------------------------------------------------------------
(* One converter applied to what the other returned.                       *)

\* longest identifier converted there and back
MaxWordsLen == 5

\* letters of both cases, a digit and the underscore
RoundAlphabet == {"a", "b", "B", "2", "_"}

RoundInputs == SeqsUpTo(RoundAlphabet, MaxWordsLen)

RoundInit ==
    /\ string \in RoundInputs
    /\ caseResult = [op |-> "none", result |-> Return(<<>>)]
    /\ CaseIdle /\ StaticIdle

\* snake_case(camel_case(string))
SnakeCaseBack ==
    /\ caseResult.op = "camel_case" /\ caseResult.result.exc = "none"
    /\ caseResult' = [op |-> "camel_case, snake_case",
                      result |-> snake_case(caseResult.result.value)]
    /\ UNCHANGED <<string, obj, camel_case_keys, arg_struct, jsonResult,
                   unjsonResult, namespace, staticVars>>

\* camel_case(snake_case(string))
CamelCaseBack ==
    /\ caseResult.op = "snake_case" /\ caseResult.result.exc = "none"
    /\ caseResult' = [op |-> "snake_case, camel_case",
                      result |-> camel_case(caseResult.result.value)]
    /\ UNCHANGED <<string, obj, camel_case_keys, arg_struct, jsonResult,
                   unjsonResult, namespace, staticVars>>

RoundNext == SnakeCase \/ CamelCase \/ SnakeCaseBack \/ CamelCaseBack

SpecRound == RoundInit /\ [][RoundNext]_vars

-----------------------------------------------------------------------------
(* Game ids and game names.                                                *)

_MIN_ID == 0

_MAX_ID == 999

\* three lists of ten words: one word a digit, hundreds first
_NAME_GEN_PARTS ==
    << << <<"g","o","o","d">>,
          <<"f","a","t">>,
          <<"g","r","e","a","t">>,
          <<"l","i","t","t","l","e">>,
          <<"o","l","d">>,
          <<"b","i","g">>,
          <<"s","m","a","l","l">>,
          <<"l","a","r","g","e">>,
          <<"b","a","d">>,
          <<"s","h","i","n","y">> >>,
       << <<"r","e","d">>,
          <<"y","e","l","l","o","w">>,
          <<"g","r","e","e","n">>,
          <<"b","l","u","e">>,
          <<"p","u","r","p","l","e">>,
          <<"s","i","l","v","e","r">>,
          <<"g","o","l","d">>,
          <<"p","i","n","k">>,
          <<"b","l","a","c","k">>,
          <<"w","h","i","t","e">> >>,
       << <<"l","i","o","n">>,
          <<"s","h","a","r","k">>,
          <<"d","o","g">>,
          <<"c","a","t">>,
          <<"s","n","a","k","e">>,
          <<"w","o","l","f">>,
          <<"d","r","a","g","o","n">>,
          <<"b","a","t">>,
          <<"m","o","o","s","e">>,
          <<"m","a","n","t","i","c","o","r","e">> >> >>

\* '-'.join(parts)
RECURSIVE Join(_, _)
Join(parts, sep) ==
    IF Len(parts) = 0 THEN <<>>
    ELSE IF Len(parts) = 1 THEN parts[1]
    ELSE parts[1] \o <<sep>> \o Join(Tail(parts), sep)

\* list.index(x): the first position of x, counted from 0, or ValueError
Index(list, x) ==
    IF \E i \in 1..Len(list) : list[i] = x
    THEN Return((CHOOSE i \in 1..Len(list) :
                    list[i] = x /\ \A j \in 1..(i - 1) : list[j] # x) - 1)
    ELSE Raise("ValueError")

\* A conversion that takes the three digits of whatever it is given.
id_to_name_Unchecked(game_id) ==
    Return(Join(<< _NAME_GEN_PARTS[1][((game_id % 1000) \div 100) + 1],
                   _NAME_GEN_PARTS[2][((game_id % 100) \div 10) + 1],
                   _NAME_GEN_PARTS[3][((game_id % 10) \div 1) + 1] >>, "-"))

id_to_name(game_id) ==
    IF game_id > 999 \/ game_id < 0 THEN Raise("ValueError")
    ELSE Return(Join(<< _NAME_GEN_PARTS[1][((game_id % 1000) \div 100) + 1],
                        _NAME_GEN_PARTS[2][((game_id % 100) \div 10) + 1],
                        _NAME_GEN_PARTS[3][((game_id % 10) \div 1) + 1] >>, "-"))

name_to_id(game_name) ==
    LET parts == Split(game_name, "-")
    IN  IF Len(parts) # 3 THEN Raise("ValueError")
        ELSE LET d0 == Index(_NAME_GEN_PARTS[1], parts[1])
                 d1 == Index(_NAME_GEN_PARTS[2], parts[2])
                 d2 == Index(_NAME_GEN_PARTS[3], parts[3])
             IN  IF d0.exc # "none" \/ d1.exc # "none" \/ d2.exc # "none"
                 THEN Raise("ValueError")
                 ELSE Return(d0.value * 100 + d1.value * 10 + d2.value)

\* how far beyond the range of ids the ids tried lie
MaxIdMargin == 3

GameIds == (_MIN_ID - MaxIdMargin)..(_MAX_ID + MaxIdMargin)

\* names handed to name_to_id: three of the tests, and names with a part
\* too few, a part too many, parts out of place, a capital, an empty part,
\* and the empty name
GameNames ==
    {<<"g","o","o","d","-","r","e","d","-","l","i","o","n">>,
     <<"s","h","i","n","y","-","w","h","i","t","e","-","m","a","n","t","i","c","o","r","e">>,
     <<"b","i","g","-","b","l","a","c","k","-","s","n","a","k","e">>,
     <<"g","o","o","d","-","r","e","d">>,
     <<"g","o","o","d","-","r","e","d","-","l","i","o","n","-","b","a","t">>,
     <<"r","e","d","-","g","o","o","d","-","l","i","o","n">>,
     <<"G","o","o","d","-","r","e","d","-","l","i","o","n">>,
     <<"g","o","o","d","-","-","l","i","o","n">>,
     <<>>}

\* an id is about to be named (obj holds it), or a name is about to be
\* read (string holds it)
IdsInit ==
    /\ \/ obj \in {PyInt(n) : n \in GameIds} /\ string = <<>>
       \/ obj = PyNone /\ string \in GameNames
    /\ caseResult = [op |-> "none", result |-> Return(<<>>)]
    /\ camel_case_keys = FALSE /\ arg_struct = FALSE
    /\ jsonResult = Pending /\ unjsonResult = Pending
    /\ namespace = BuiltinClasses
    /\ StaticIdle

IdToName ==
    /\ obj[1] = "int" /\ caseResult.op = "none"
    /\ caseResult' = [op |-> "id_to_name", result |-> id_to_name(obj[2])]
    /\ UNCHANGED <<string, jsonVars, staticVars>>

\* name_to_id(id_to_name(game_id))
NameOfIdToId ==
    /\ caseResult.op = "id_to_name" /\ caseResult.result.exc = "none"
    /\ caseResult' = [op |-> "id_to_name, name_to_id",
                      result |-> name_to_id(caseResult.result.value)]
    /\ string' = caseResult.result.value
    /\ UNCHANGED <<jsonVars, staticVars>>

NameToId ==
    /\ obj = PyNone /\ caseResult.op = "none"
    /\ caseResult' = [op |-> "name_to_id", result |-> name_to_id(string)]
    /\ UNCHANGED <<string, jsonVars, staticVars>>

IdsNext == IdToName \/ NameOfIdToId \/ NameToId

SpecIds == IdsInit /\ [][IdsNext]_vars

-----------------------------------------------------------------------------
(* jsonify applied to a value, and unjsonify applied to what it returned.  *)

JsonInit ==
    /\ \/ obj \in PlainInputs \cup UnsupportedInputs \cup CollidingInputs
          /\ namespace = BuiltinClasses
       \/ \E fields \in DistinctSeqs(FieldNames, MaxItems) :
             /\ namespace = NamespaceWith(fields)
             /\ obj \in RecordInputs(fields) \cup MixinInputs(fields)
    /\ camel_case_keys \in BOOLEAN
    /\ arg_struct \in BOOLEAN
    /\ jsonResult = Pending /\ unjsonResult = Pending
    /\ string = <<>> /\ caseResult = [op |-> "none", result |-> Return(<<>>)]
    /\ StaticIdle

Jsonify ==
    /\ jsonResult = Pending
    /\ jsonResult' = jsonify(obj, camel_case_keys, arg_struct)
    /\ UNCHANGED <<obj, camel_case_keys, arg_struct, unjsonResult, namespace,
                   caseVars, staticVars>>

Unjsonify ==
    /\ jsonResult # Pending /\ ~IsRaised(jsonResult)
    /\ unjsonResult = Pending
    /\ unjsonResult' = unjsonify(jsonResult, camel_case_keys, namespace)
    /\ UNCHANGED <<obj, camel_case_keys, arg_struct, jsonResult, namespace,
                   caseVars, staticVars>>

JsonNext == Jsonify \/ Unjsonify

SpecJson == JsonInit /\ [][JsonNext]_vars

-----------------------------------------------------------------------------
(* jsonify applied to a timestamp, and unjsonify applied to what it        *)
(* returned.                                                               *)

\* the first and the last year of datetime, and a leap year
Years == {1, 2020, 9999}

\* the first and the last day of a year, the days about the end of
\* February, and the day of the tests
MonthsDays == {<<1, 1>>, <<2, 28>>, <<2, 29>>, <<3, 1>>, <<4, 29>>, <<12, 31>>}

Hours == {0, 14, 23}

Minutes == {5, 15, 55}

\* utcoffset of the custom zones, in minutes
Offsets == {-10, 10, 90}

TzInfos == {NoTz, PytzUTC, NativeUTC} \cup {CustomTZ(o) : o \in Offsets}

TimeInputs ==
    {PyDatetime(DateTime(ymd[1], ymd[2][1], ymd[2][2], h, mi, 16, 789, tz)) :
        ymd \in {x \in Years \X MonthsDays :
                    x[2][2] <= DaysInMonth(x[1], x[2][1])},
        h \in Hours, mi \in Minutes, tz \in TzInfos}

\* pygot.serialisation is imported, date_time with it
TimeClasses ==
    BuiltinClasses
        \cup {Class(Chars_pygot_serialisation, Chars_date_time, "date_time", <<>>)}

TimeInit ==
    /\ obj \in TimeInputs
    /\ namespace = TimeClasses
    /\ camel_case_keys \in BOOLEAN
    /\ arg_struct \in BOOLEAN
    /\ jsonResult = Pending /\ unjsonResult = Pending
    /\ string = <<>> /\ caseResult = [op |-> "none", result |-> Return(<<>>)]
    /\ StaticIdle

SpecTime == TimeInit /\ [][JsonNext]_vars

-----------------------------------------------------------------------------
(* unjsonify applied to a JSON tree received from elsewhere: jsonResult    *)
(* holds the tree, no jsonify call having produced it.                     *)

Chars_a_at == <<"a", "@">>

Chars_nope == <<"n","o","p","e">>

Chars_rel_app == <<".","a","p","p">>

\* the keys of the mappings received
DecodeKeys ==
    {Chars_someReally, Chars_quiteNested, Chars_quite_nested, Chars_a_at,
     _MODULE_KEY}

DecodeLeaves == {PyStr(Chars_thing), PyInt(1)}

\* mappings that lack $module or $type, nested one level or inside a list
UntaggedInputs ==
    DictsOf(DecodeKeys,
            {PyStr(Chars_thing)}
                \cup DictsOf({Chars_quiteNested, Chars_a_at, _MODULE_KEY},
                             {PyStr(Chars_thing)}, 1)
                \cup {PyList(<<PyDict(<< <<Chars_quiteNested,
                                           PyStr(Chars_thing)>> >>)>>)},
            MaxItems)

\* mappings that carry both reserved keys: the module is app, an absent
\* module, a relative name or the empty name; the type is Record, an absent
\* attribute or not a string
TaggedInputs ==
    {PyDict(rest[2] \o << <<_MODULE_KEY, module>>, <<_NAME_KEY, name>> >>) :
        rest \in DictsOf({Chars_someReally, Chars_quiteNested,
                          Chars_quite_nested}, DecodeLeaves, MaxItems),
        module \in {PyStr(Chars_app), PyStr(Chars_nope), PyStr(Chars_rel_app),
                    PyStr(<<>>)},
        name \in {PyStr(Chars_Record), PyStr(Chars_nope), PyInt(1)}}

DecodeInit ==
    /\ jsonResult \in UntaggedInputs \cup TaggedInputs
    /\ namespace = NamespaceWith(<<Chars_quite_nested>>)
    /\ camel_case_keys \in BOOLEAN
    /\ obj = PyNone /\ arg_struct = FALSE
    /\ unjsonResult = Pending
    /\ string = <<>> /\ caseResult = [op |-> "none", result |-> Return(<<>>)]
    /\ StaticIdle

DecodeNext == Unjsonify

SpecDecode == DecodeInit /\ [][DecodeNext]_vars

-----------------------------------------------------------------------------
(* The static catalog.  A category is a class created by the metaclass     *)
(* Registry; its record holds its __name__, the names it annotates in      *)
(* declaration order, its public class attributes and its __registry__.    *)
(* A member is a class created by its category; its record holds its       *)
(* __name__, its __static_fields__, the names of its dataclass fields and  *)
(* the class attributes that __static_fields__ names.  A registry is a     *)
(* dict keyed by the lower-cased name, and a registered object is referred *)
(* to by its keys.                                                         *)

Chars_a == <<"a">>

Chars_b == <<"b">>

Chars_register == <<"r","e","g","i","s","t","e","r">>

Chars_GoodBoy == <<"G","o","o","d","B","o","y">>

Chars_goodboy == <<"g","o","o","d","b","o","y">>

Chars_Name123 == <<"N","a","m","e","1","2","3">>

Chars_name123 == <<"n","a","m","e","1","2","3">>

Chars_Flavour == <<"F","l","a","v","o","u","r">>

Chars_Vanilla == <<"V","a","n","i","l","l","a">>

Chars_Unit == <<"U","n","i","t">>

Chars_Footman == <<"F","o","o","t","m","a","n">>

Chars_Knight == <<"K","n","i","g","h","t">>

Chars_Ship == <<"S","h","i","p">>

Chars_Siege == <<"S","i","e","g","e">>

Chars_Terrain == <<"T","e","r","r","a","i","n">>

Chars_Land == <<"L","a","n","d">>

Chars_Sea == <<"S","e","a">>

Chars_House == <<"H","o","u","s","e">>

Chars_Stark == <<"S","t","a","r","k">>

Chars_Greyjoy == <<"G","r","e","y","j","o","y">>

Chars_Lannister == <<"L","a","n","n","i","s","t","e","r">>

Chars_Martell == <<"M","a","r","t","e","l","l">>

Chars_Tyrell == <<"T","y","r","e","l","l">>

Chars_Baratheon == <<"B","a","r","a","t","h","e","o","n">>

Chars_shared_round_time == <<"s","h","a","r","e","d","_","r","o","u","n","d","_","t","i","m","e">>

Chars_individual_round_time == <<"i","n","d","i","v","i","d","u","a","l","_","r","o","u","n","d","_","t","i","m","e">>

Chars_rounds == <<"r","o","u","n","d","s">>

Chars_unit_damage == <<"u","n","i","t","_","d","a","m","a","g","e">>

Chars_fort_damage == <<"f","o","r","t","_","d","a","m","a","g","e">>

Chars_state == <<"s","t","a","t","e">>

Chars_unit_constraint == <<"u","n","i","t","_","c","o","n","s","t","r","a","i","n","t">>

Chars_token_constraint == <<"t","o","k","e","n","_","c","o","n","s","t","r","a","i","n","t">>

Chars_words == <<"w","o","r","d","s">>

Chars_description == <<"d","e","s","c","r","i","p","t","i","o","n">>

Chars___module__ == <<"_","_","m","o","d","u","l","e","_","_">>

Chars___qualname__ == <<"_","_","q","u","a","l","n","a","m","e","_","_">>

Words_Stark == <<"W","i","n","t","e","r"," ","i","s"," ","C","o","m","i","n","g">>

Words_Greyjoy == <<"W","e"," ","D","o"," ","N","o","t"," ","S","o","w">>

Words_Lannister == <<"H","e","a","r"," ","M","e"," ","R","o","a","r">>

Words_Martell == <<"U","n","b","o","w","e","d",","," ","U","n","b","e","n","t",","," ","U","n","b","r","o","k","e","n">>

Words_Tyrell == <<"G","r","o","w","i","n","g"," ","S","t","r","i","n","g">>

Words_Baratheon == <<"O","u","r","s"," ","i","s"," ","t","h","e"," ","F","u","r","y">>

\* the marker a category assigns to the attributes it fixes
STATIC == <<"type", "STATIC">>

IsSTATIC(x) == x[1] = "type" /\ x[2] = "STATIC"

\* a registered member as a value, named by its keys
PyMember(cat, name) == <<"member", <<cat, name>>>>

\* a typing alias such as List[Ship]
PyAlias(of) == <<"alias", of>>

\* str.startswith('_')
StartsWithUnderscore(k) == k # <<>> /\ k[1] = "_"

\* A membership test that compares the name as it is spelt.
__contains___Exact(reg, x) == DictHas(reg, x)

\* _Registry.__contains__ for a str
__contains__(reg, x) == DictHas(reg, Lower(x))

\* _Registry.__getattr__ for a name __contains__ accepts
__getattr__(reg, name) == DictGet(reg, Lower(name))

\* _Registry.__len__
__len__(reg) == Len(reg)

\* _Registry.__iter__: the values of the table, in insertion order
__iter__(reg) == [i \in 1..Len(reg) |-> reg[i][2]]

\* Registry.register
register(reg, instance) == DictSet(reg, Lower(instance.name), instance)

\* Registry.__new__: the class with a registry of its own
Registry__new__(name, annotations, attrs) ==
    [name |-> name, annotations |-> annotations, attrs |-> attrs,
     members |-> <<>>]

\* A hook that registers the category whatever the table holds.
__init_subclass___Unchecked(reg, mcs) ==
    [exc |-> "none", registry |-> DictSet(reg, Lower(mcs.name), mcs)]

\* StaticData.__init_subclass__, which type.__new__ calls while the class
\* statement of a category runs: the exception raised and the global table
__init_subclass__(reg, mcs) ==
    IF __contains__(reg, mcs.name)
    THEN [exc |-> "StaticTypeConflict", registry |-> reg]
    ELSE [exc |-> "none", registry |-> register(reg, mcs)]

\* static_attrs of StaticData.__new__
StaticAttrs(mcs) ==
    {attr \in Range(mcs.annotations) :
        /\ ~StartsWithUnderscore(attr)
        /\ DictHas(mcs.attrs, attr)
        /\ IsSTATIC(DictGet(mcs.attrs, attr))}

\* dynamic_attrs of StaticData.__new__, in annotation order
DynamicAttrs(mcs) ==
    SelectSeq(mcs.annotations,
              LAMBDA attr : ~StartsWithUnderscore(attr)
                               /\ attr \notin StaticAttrs(mcs))

Missing(mcs, class_dict) == StaticAttrs(mcs) \ DictKeys(class_dict)

\* A check that lets every supplied attribute pass.
Unexpected_None(mcs, class_dict) == {}

Unexpected(mcs, class_dict) ==
    DictKeys(class_dict) \cap Range(DynamicAttrs(mcs))

FullStatic(mcs, class_dict) ==
    StaticAttrs(mcs) \cup
        {k \in DictKeys(class_dict) :
            k \notin Range(DynamicAttrs(mcs)) /\ ~StartsWithUnderscore(k)}

\* The class StaticData.__new__ builds and hands to dataclasses.dataclass.
\* Beside its attributes the record keeps, as history, the values they had
\* when the class was built.
NewMember(mcs, name, class_dict) ==
    LET attrs == SelectSeq(class_dict,
                           LAMBDA it : it[1] \in FullStatic(mcs, class_dict))
    IN  [name |-> name,
         static_fields |-> FullStatic(mcs, class_dict),
         annotations |-> DynamicAttrs(mcs),
         attrs |-> attrs,
         defined |-> attrs]

\* {k: getattr(existing, k) for k in existing.__static_fields__}
ExistingClassDict(existing) ==
    SelectSeq(existing.attrs, LAMBDA it : it[1] \in existing.static_fields)

\* The names getattr(mcs, name) finds by ordinary lookup, so that
\* _Registry.__getattr__ is never asked: the properties and methods of the
\* metaclass, among them name and register, and the class attributes of the
\* category.  What it finds there has no __static_fields__.
OrdinaryAttrs(mcs) == {Chars_name, Chars_register} \cup DictKeys(mcs.attrs)

\* What an attribute lookup on a registry class gives: the object registered
\* under a key, an attribute found by ordinary lookup, or AttributeError.
Found(how, key) == [how |-> how, key |-> key]

\* getattr(mcs, name) on a category: type.__getattribute__ first, and
\* _Registry.__getattr__ only when that finds nothing.
getattr(mcs, name) ==
    IF name \in OrdinaryAttrs(mcs) THEN Found("ordinary", name)
    ELSE IF __contains__(mcs.members, name) THEN Found("registered", Lower(name))
    ELSE Found("AttributeError", name)

Outcome(exc, result, members) ==
    [exc |-> exc, result |-> result, members |-> members]

\* A constructor that registers what it is given before it validates it.
StaticData__new___Eager(mcs, name, class_dict) ==
    LET members == register(mcs.members, NewMember(mcs, name, class_dict))
    IN  IF Missing(mcs, class_dict) # {}
        THEN Outcome("ExpectedStaticAttr", <<>>, members)
        ELSE IF Unexpected(mcs, class_dict) # {}
        THEN Outcome("UnexpectedStaticAttr", <<>>, members)
        ELSE Outcome("none", Lower(name), members)

\* StaticData.__new__: the exception raised, the key of the member returned
\* and the category's registry afterwards.
StaticData__new__(mcs, name, class_dict) ==
    IF __contains__(mcs.members, name)
    THEN IF name \in OrdinaryAttrs(mcs)
         THEN Outcome("AttributeError", <<>>, mcs.members)
         ELSE LET existing == __getattr__(mcs.members, name)
              IN  IF PyEq(PyDict(class_dict),
                          PyDict(ExistingClassDict(existing)))
                  THEN Outcome("none", Lower(existing.name), mcs.members)
                  ELSE Outcome("StaticInstanceConflict", <<>>, mcs.members)
    ELSE IF Missing(mcs, class_dict) # {}
    THEN Outcome("ExpectedStaticAttr", <<>>, mcs.members)
    ELSE IF Unexpected(mcs, class_dict) # {}
    THEN Outcome("UnexpectedStaticAttr", <<>>, mcs.members)
    ELSE Outcome("none", Lower(name),
                 register(mcs.members, NewMember(mcs, name, class_dict)))

\* unjsonify of a mapping whose tag resolves to the category mcs, which is
\* no JSONMixin, no Enum and not float: cls(**kwargs) is
\* StaticData.__new__(mcs, name=..., **class_dict).  A missing name or a name
\* that is no str is a TypeError, and StaticInstanceConflict is one; the
\* except clause turns TypeError and ValueError into ValueError and lets
\* every other exception pass.
UnjsonifyStatic(mcs, json, camel) ==
    LET vals == [i \in 1..Len(json[2]) |->
                    unjsonify(json[2][i][2], camel, BuiltinClasses)]
        decoded == [i \in 1..Len(json[2]) |-> <<json[2][i][1], vals[i]>>]
        mapping == DictWithout(DictWithout(decoded, _MODULE_KEY), _NAME_KEY)
        kwargs == IF camel THEN SnakeKeys(mapping) ELSE PyDict(mapping)
    IN  IF AnyRaised(vals) THEN Outcome(FirstRaised(vals)[2], <<>>, mcs.members)
        ELSE IF IsRaised(kwargs) THEN Outcome("ValueError", <<>>, mcs.members)
        ELSE IF ~DictHas(kwargs[2], Chars_name)
             THEN Outcome("ValueError", <<>>, mcs.members)
        ELSE IF DictGet(kwargs[2], Chars_name)[1] # "str"
             THEN Outcome("ValueError", <<>>, mcs.members)
        ELSE LET out == StaticData__new__(mcs, DictGet(kwargs[2], Chars_name)[2],
                                          DictWithout(kwargs[2], Chars_name))
             IN  IF out.exc = "StaticInstanceConflict"
                 THEN Outcome("ValueError", <<>>, mcs.members)
                 ELSE out

\* The __init__ dataclasses.dataclass generates for a member: one keyword
\* for each field and no other, the fields having no defaults.
MemberInit(member, kwargs) ==
    IF DictKeys(kwargs) = Range(member.annotations)
    THEN [exc |-> "none",
          dict |-> [i \in 1..Len(member.annotations) |->
                       <<member.annotations[i],
                         DictGet(kwargs, member.annotations[i])>>]]
    ELSE [exc |-> "TypeError", dict |-> <<>>]

\* A setter that refuses nothing.
_setattr_Open(member, dict, name_, value_) ==
    [exc |-> "none", dict |-> DictSet(dict, name_, value_)]

\* _setattr, the __setattr__ of a member's instances
_setattr(member, dict, name_, value_) ==
    IF name_ \in member.static_fields
    THEN [exc |-> "AttributeError", dict |-> dict]
    ELSE [exc |-> "none", dict |-> DictSet(dict, name_, value_)]

\* type.__setattr__ on a member: StaticData defines no __setattr__ for the
\* classes it creates, so the class attribute is rebound.
MemberSetattr(member, name_, value_) ==
    [member EXCEPT !.attrs = DictSet(member.attrs, name_, value_)]

\* getattr on a member
MemberGetattr(member, name_) ==
    IF DictHas(member.attrs, name_)
    THEN DictGet(member.attrs, name_)
    ELSE Raised("AttributeError")

\* getattr on an instance: its own __dict__, then the class
InstanceGetattr(member, dict, name_) ==
    IF DictHas(dict, name_) THEN DictGet(dict, name_)
    ELSE MemberGetattr(member, name_)

\* the namespace a class statement hands to the metaclass
ClassBody(name, body) ==
    << <<Chars___module__, PyStr(Chars_pygot_static)>>,
       <<Chars___qualname__, PyStr(name)>> >> \o body

\* the registry with the table of one category replaced
WithMembers(reg, cat, members) ==
    DictSet(reg, cat, [DictGet(reg, cat) EXCEPT !.members = members])

\* the class statements of pygot.static, in source order
ModuleStatements ==
    << <<"category", Chars_Flavour,
         <<Chars_shared_round_time, Chars_individual_round_time, Chars_rounds>>,
         <<>> >>,
       <<"member", Chars_Flavour, Chars_Vanilla, <<>> >>,
       <<"category", Chars_Unit,
         <<Chars_unit_damage, Chars_fort_damage, Chars_state>>,
         << <<Chars_unit_damage, STATIC>>, <<Chars_fort_damage, STATIC>> >> >>,
       <<"member", Chars_Unit, Chars_Footman,
         << <<Chars_unit_damage, PyInt(1)>>, <<Chars_fort_damage, PyInt(1)>> >> >>,
       <<"member", Chars_Unit, Chars_Knight,
         << <<Chars_unit_damage, PyInt(2)>>, <<Chars_fort_damage, PyInt(2)>> >> >>,
       <<"member", Chars_Unit, Chars_Ship,
         << <<Chars_unit_damage, PyInt(1)>>, <<Chars_fort_damage, PyInt(1)>> >> >>,
       <<"member", Chars_Unit, Chars_Siege,
         << <<Chars_unit_damage, PyInt(0)>>, <<Chars_fort_damage, PyInt(4)>> >> >>,
       <<"category", Chars_Terrain,
         <<Chars_unit_constraint, Chars_token_constraint>>,
         << <<Chars_unit_constraint, STATIC>>,
            <<Chars_token_constraint, STATIC>> >> >>,
       <<"member", Chars_Terrain, Chars_Land,
         << <<Chars_unit_constraint,
              PyList(<<PyMember(Lower(Chars_Unit), Lower(Chars_Footman)),
                       PyMember(Lower(Chars_Unit), Lower(Chars_Knight)),
                       PyMember(Lower(Chars_Unit), Lower(Chars_Siege))>>)>>,
            <<Chars_token_constraint, PyList(<<>>)>> >> >>,
       <<"member", Chars_Terrain, Chars_Sea,
         << <<Chars_unit_constraint, PyAlias(Chars_Ship)>>,
            <<Chars_token_constraint, PyList(<<>>)>> >> >>,
       <<"category", Chars_House,
         <<Chars_words, Chars_description>>,
         << <<Chars_words, STATIC>>, <<Chars_description, STATIC>> >> >>,
       <<"member", Chars_House, Chars_Stark,
         << <<Chars_words, PyStr(Words_Stark)>>,
            <<Chars_description, PyStr(<<>>)>> >> >>,
       <<"member", Chars_House, Chars_Greyjoy,
         << <<Chars_words, PyStr(Words_Greyjoy)>>,
            <<Chars_description, PyStr(<<>>)>> >> >>,
       <<"member", Chars_House, Chars_Lannister,
         << <<Chars_words, PyStr(Words_Lannister)>>,
            <<Chars_description, PyStr(<<>>)>> >> >>,
       <<"member", Chars_House, Chars_Martell,
         << <<Chars_words, PyStr(Words_Martell)>>,
            <<Chars_description, PyStr(<<>>)>> >> >>,
       <<"member", Chars_House, Chars_Tyrell,
         << <<Chars_words, PyStr(Words_Tyrell)>>,
            <<Chars_description, PyStr(<<>>)>> >> >>,
       <<"member", Chars_House, Chars_Baratheon,
         << <<Chars_words, PyStr(Words_Baratheon)>>,
            <<Chars_description, PyStr(<<>>)>> >> >> >>

\* the global table after the statements have run, none of which raises
RECURSIVE Import(_, _)
Import(stmts, reg) ==
    IF stmts = <<>> THEN reg
    ELSE LET s == Head(stmts)
             cat == Lower(s[2])
         IN  IF s[1] = "category"
             THEN Import(Tail(stmts),
                         __init_subclass__(
                             reg, Registry__new__(s[2], s[3], s[4])).registry)
             ELSE Import(Tail(stmts),
                         WithMembers(reg, cat,
                             StaticData__new__(DictGet(reg, cat), s[3],
                                               ClassBody(s[3], s[4])).members))

\* StaticData.__registry__ once pygot.static is imported
ImportedRegistry == Import(ModuleStatements, <<>>)

-----------------------------------------------------------------------------
(* The catalog in use: categories and members are defined, members are     *)
(* instantiated, attributes of instances and of members are assigned.      *)

\* most instances alive
MaxInstances == 2

\* the names categories and members are defined under; the tables grow no
\* further than these names allow
CategoryNames == {Chars_Name123, Chars_name123, Chars_Unit}

\* what the body of a category declares: its annotations and its class
\* attributes; "a: int = STATIC; b: int", or "b: int" alone
Schemas ==
    { << <<Chars_a, Chars_b>>, << <<Chars_a, STATIC>> >> >>,
      << <<Chars_b>>, <<>> >> }

MemberNames == {Chars_GoodBoy, Chars_goodboy, Chars_name}

Values == {PyInt(1), PyInt(2)}

\* the attributes a programmatic creation supplies: nothing, a, b, or both
CallDicts ==
    {<<>>, << <<Chars_b, PyInt(1)>> >>,
     << <<Chars_a, PyInt(1)>>, <<Chars_b, PyInt(1)>> >>}
        \cup {<< <<Chars_a, v>> >> : v \in Values}

\* the attributes the body of a class statement assigns: nothing, or a
ClassBodies == {<<>>, << <<Chars_a, PyInt(1)>> >>}

\* the class dict of a programmatic creation, or of a class statement
ClassDicts(name) ==
    CallDicts \cup {ClassBody(name, body) : body \in ClassBodies}

\* the keywords an instance is constructed with
Kwargs == {<<>>} \cup {<< <<Chars_b, v>> >> : v \in Values}

\* the values assignments assign
Assigned == {PyInt(2)}

AttrNames == {Chars_a, Chars_b}

\* the categories defined since the import, by key
Defined == DictKeys(registry) \ DictKeys(ImportedRegistry)

Init ==
    /\ registry = ImportedRegistry
    /\ instances = <<>>
    /\ last = NoCall
    /\ string = <<>> /\ caseResult = [op |-> "none", result |-> Return(<<>>)]
    /\ CaseIdle

\* class <name>(StaticData): <schema>
DefineCategory(name, schema) ==
    LET out == __init_subclass__(registry,
                                 Registry__new__(name, schema[1], schema[2]))
    IN  /\ registry' = out.registry
        /\ last' = Called("DefineCategory", out.exc, Lower(name), name, schema,
                         <<>>, 0)
        /\ UNCHANGED <<instances, caseVars, jsonVars>>

\* <cat>(name, **class_dict), or class <name>(metaclass=<cat>): <body>
CreateMember(cat, name, class_dict) ==
    LET out == StaticData__new__(DictGet(registry, cat), name, class_dict)
    IN  /\ cat \in Defined
        /\ registry' = WithMembers(registry, cat, out.members)
        /\ last' = Called("CreateMember", out.exc, cat, name, class_dict,
                         out.result, 0)
        /\ UNCHANGED <<instances, caseVars, jsonVars>>

TheMember(reg, cat, mem) == DictGet(DictGet(reg, cat).members, mem)

\* <member>(**kwargs)
Instantiate(cat, mem, kwargs) ==
    /\ cat \in DictKeys(registry)
    /\ mem \in DictKeys(DictGet(registry, cat).members)
    /\ LET out == MemberInit(TheMember(registry, cat, mem), kwargs)
       IN  /\ out.exc = "none" => Len(instances) < MaxInstances
           /\ instances' =
                 IF out.exc = "none"
                 THEN Append(instances,
                             [cat |-> cat, member |-> mem, dict |-> out.dict])
                 ELSE instances
           /\ last' = Called("Instantiate", out.exc, cat, mem, kwargs, <<>>,
                             IF out.exc = "none" THEN Len(instances) + 1 ELSE 0)
    /\ UNCHANGED <<registry, caseVars, jsonVars>>

\* instance.<name_> = value_
SetAttrInstance(i, name_, value_) ==
    /\ i \in 1..Len(instances)
    /\ LET inst == instances[i]
           out == _setattr(TheMember(registry, inst.cat, inst.member),
                           inst.dict, name_, value_)
       IN  /\ instances' = [instances EXCEPT ![i].dict = out.dict]
           /\ last' = Called("SetAttrInstance", out.exc, inst.cat, inst.member,
                             <<name_, value_>>, <<>>, i)
    /\ UNCHANGED <<registry, caseVars, jsonVars>>

\* <member>.<name_> = value_, for a fixed field
SetAttrMember(cat, mem, name_, value_) ==
    /\ cat \in Defined
    /\ mem \in DictKeys(DictGet(registry, cat).members)
    /\ name_ \in TheMember(registry, cat, mem).static_fields
    /\ registry' =
          WithMembers(registry, cat,
              DictSet(DictGet(registry, cat).members, mem,
                      MemberSetattr(TheMember(registry, cat, mem),
                                    name_, value_)))
    /\ last' = Called("SetAttrMember", "none", cat, mem, <<name_, value_>>,
                     <<>>, 0)
    /\ UNCHANGED <<instances, caseVars, jsonVars>>

\* the mapping jsonify gives for a member of the category named type_name,
\* or one written by hand: the attributes, the name if any, and the tag
MemberJson(type_name, name, class_dict) ==
    PyDict(class_dict
             \o (IF name = <<>> THEN <<>> ELSE << <<Chars_name, PyStr(name)>> >>)
             \o << <<_MODULE_KEY, PyStr(Chars_pygot_static)>>,
                   <<_NAME_KEY, PyStr(type_name)>> >>)

\* unjsonify(MemberJson(type_name, name, class_dict), camel_case_keys=camel);
\* a category is bound, under its name as it is spelt, in the module its
\* tag names.
DecodeMember(type_name, name, class_dict, camel) ==
    \E cat \in DictKeys(registry) :
        /\ DictGet(registry, cat).name = type_name
        /\ LET out == UnjsonifyStatic(DictGet(registry, cat),
                                      MemberJson(type_name, name, class_dict),
                                      camel)
           IN  /\ registry' = WithMembers(registry, cat, out.members)
               /\ last' = Called("unjsonify", out.exc, cat, name, class_dict,
                                 out.result, 0)
        /\ UNCHANGED <<instances, caseVars, jsonVars>>

\* The catalog being defined: categories and members under every name, and
\* fixed fields of members reassigned.
Next ==
    \/ \E name \in CategoryNames, schema \in Schemas :
          DefineCategory(name, schema)
    \/ \E cat \in Defined, name \in MemberNames :
          \E class_dict \in ClassDicts(name) : CreateMember(cat, name, class_dict)
    \/ \E cat \in Defined, mem \in {Lower(n) : n \in MemberNames},
          name_ \in AttrNames, value_ \in Assigned :
          SetAttrMember(cat, mem, name_, value_)

Spec == Init /\ [][Next]_vars

\* the attributes the member in use is created and re-created with
UseDicts == {<<>>} \cup {<< <<Chars_a, v>> >> : v \in Values}

\* The catalog in use: one category, one member name, and instances of the
\* member constructed and assigned to.
UseNext ==
    \/ \E schema \in Schemas : DefineCategory(Chars_Name123, schema)
    \/ \E cat \in Defined, class_dict \in UseDicts :
          CreateMember(cat, Chars_GoodBoy, class_dict)
    \/ \E cat \in Defined, kwargs \in Kwargs :
          Instantiate(cat, Lower(Chars_GoodBoy), kwargs)
    \/ \E i \in 1..MaxInstances, name_ \in AttrNames, value_ \in Assigned :
          SetAttrInstance(i, name_, value_)
    \/ \E cat \in Defined, name_ \in AttrNames, value_ \in Assigned :
          SetAttrMember(cat, Lower(Chars_GoodBoy), name_, value_)

SpecUse == Init /\ [][UseNext]_vars

\* a value a member holds, the members it refers to replaced by their values
RECURSIVE Resolve(_, _)
Resolve(reg, v) ==
    CASE v[1] = "member" ->
            LET mcs == DictGet(reg, v[2][1])
                member == DictGet(mcs.members, v[2][2])
                fixed == ExistingClassDict(member)
            IN  PyStatic(mcs.name, member.name,
                         [i \in 1..Len(fixed) |->
                             <<fixed[i][1], Resolve(reg, fixed[i][2])>>])
      [] v[1] = "list" ->
            PyList([i \in 1..Len(v[2]) |-> Resolve(reg, v[2][i])])
      [] OTHER -> v

\* jsonify(<member>, camel_case_keys=camel, arg_struct=arg)
JsonifyMember(cat, mem, camel, arg) ==
    /\ cat \in DictKeys(registry)
    /\ mem \in DictKeys(DictGet(registry, cat).members)
    /\ \E out \in {jsonify(Resolve(registry, PyMember(cat, mem)), camel, arg)} :
           last' = Called("jsonify", IF IsRaised(out) THEN out[2] ELSE "none",
                         cat, mem, <<camel, arg>>,
                         IF IsRaised(out) THEN <<>> ELSE out, 0)
    /\ UNCHANGED <<registry, instances, caseVars, jsonVars>>

\* the members encoded: those of the category defined, a unit, and the
\* terrain whose fixed field holds units
WireMembers ==
    {<<Lower(Chars_Name123), Lower(n)>> : n \in {Chars_GoodBoy, Chars_name}}
        \cup {<<Lower(Chars_Unit), Lower(Chars_Footman)>>,
              <<Lower(Chars_Terrain), Lower(Chars_Land)>>}

\* the names members go under on the wire
WireNames == {Chars_GoodBoy, Chars_name}

\* The catalog on the wire: one category defined beside those of
\* pygot.static, members created by call and by unjsonify.
WireNext ==
    \/ \E schema \in Schemas : DefineCategory(Chars_Name123, schema)
    \/ \E cat \in Defined, name \in WireNames, class_dict \in UseDicts :
          CreateMember(cat, name, class_dict)
    \/ \E type_name \in {Chars_Name123, Chars_Unit},
          name \in WireNames \cup {<<>>},
          class_dict \in CallDicts, camel \in BOOLEAN :
          DecodeMember(type_name, name, class_dict, camel)
    \/ \E m \in WireMembers, camel \in BOOLEAN, arg \in BOOLEAN :
          JsonifyMember(m[1], m[2], camel, arg)

SpecWire == Init /\ [][WireNext]_vars

-----------------------------------------------------------------------------
(* Instances of members on the wire: an instance is encoded, and what the  *)
(* encoder returned is decoded into a new instance.                        *)

\* An instance as the dataclass handler sees it, with the fixed fields
\* taken for fields as well.
InstanceValue_WithFixed(member, dict) ==
    LET names == member.annotations \o
                    [i \in 1..Len(member.attrs) |-> member.attrs[i][1]]
    IN  PyDataclass(Chars_pygot_static, member.name,
                    [i \in 1..Len(names) |->
                        <<names[i], InstanceGetattr(member, dict, names[i])>>])

\* An instance as the dataclass handler sees it: dataclasses.fields(o) are
\* the annotations of the member, which are the mutable fields of its
\* category; type(o).__module__ is pygot.static, where type.__new__ ran.
InstanceValue(member, dict) ==
    PyDataclass(Chars_pygot_static, member.name,
                [i \in 1..Len(member.annotations) |->
                    <<member.annotations[i],
                      InstanceGetattr(member, dict, member.annotations[i])>>])

\* the members bound under their names in pygot.static by its class
\* statements, as <<category, member>> keys
ModuleMembers ==
    {<<Lower(ModuleStatements[i][2]), Lower(ModuleStatements[i][3])>> :
        i \in {j \in 1..Len(ModuleStatements) :
                  ModuleStatements[j][1] = "member"}}

\* what importlib.import_module and getattr find: float, and the members
\* pygot.static binds; a member created later is bound nowhere in it
StaticNamespace ==
    BuiltinClasses \cup
        {Class(Chars_pygot_static,
               TheMember(ImportedRegistry, m[1], m[2]).name, "dataclass",
               TheMember(ImportedRegistry, m[1], m[2]).annotations) :
            m \in ModuleMembers}

\* jsonify(<instance>, camel_case_keys=camel, arg_struct=arg)
JsonifyInstance(i, camel, arg) ==
    /\ i \in 1..Len(instances)
    /\ \E value \in {InstanceValue(TheMember(registry, instances[i].cat,
                                              instances[i].member),
                                    instances[i].dict)} :
        \E out \in {jsonify(value, camel, arg)} :
           /\ obj' = value
           /\ jsonResult' = out
           /\ last' = Called("jsonify", IF IsRaised(out) THEN out[2] ELSE "none",
                             instances[i].cat, instances[i].member,
                             <<camel, arg>>, <<>>, i)
    /\ camel_case_keys' = camel
    /\ arg_struct' = arg
    /\ unjsonResult' = Pending
    /\ UNCHANGED <<namespace, registry, instances, caseVars>>

\* the key of the member pygot.static binds under a name
BoundAs(name) ==
    CHOOSE m \in ModuleMembers :
        TheMember(ImportedRegistry, m[1], m[2]).name = name

\* unjsonify(<what jsonify returned>, camel_case_keys=<as encoded>)
UnjsonifyInstance ==
    /\ jsonResult # Pending /\ ~IsRaised(jsonResult)
    /\ unjsonResult = Pending
    /\ \E out \in {unjsonify(jsonResult, camel_case_keys, StaticNamespace)} :
           /\ unjsonResult' = out
           /\ out[1] = "dataclass" => Len(instances) < MaxInstances
           /\ instances' =
                 IF out[1] = "dataclass"
                 THEN Append(instances,
                             [cat |-> BoundAs(out[2].name)[1],
                              member |-> BoundAs(out[2].name)[2],
                              dict |-> out[2].fields])
                 ELSE instances
           /\ last' = Called("unjsonify",
                             IF IsRaised(out) THEN out[2] ELSE "none",
                             <<>>, <<>>, <<>>, <<>>,
                             IF out[1] = "dataclass" THEN Len(instances) + 1
                                                     ELSE 0)
    /\ UNCHANGED <<obj, camel_case_keys, arg_struct, jsonResult, namespace,
                   registry, caseVars>>

\* the members instantiated: one created by a call, one pygot.static binds
TripMembers ==
    {<<Lower(Chars_Name123), Lower(Chars_GoodBoy)>>,
     <<Lower(Chars_Unit), Lower(Chars_Footman)>>}

\* GoodBoy(b=1), Footman(state={"quite_nested": 2}), and each with the
\* other's keyword
TripKwargs ==
    {<< <<Chars_b, PyInt(1)>> >>,
     << <<Chars_state, PyDict(<< <<Chars_quite_nested, PyInt(2)>> >>)>> >>}

TripNext ==
    \/ DefineCategory(Chars_Name123, << <<Chars_a, Chars_b>>,
                                         << <<Chars_a, STATIC>> >> >>)
    \/ CreateMember(Lower(Chars_Name123), Chars_GoodBoy,
                    << <<Chars_a, PyInt(1)>> >>)
    \/ \E m \in TripMembers, kwargs \in TripKwargs :
          Instantiate(m[1], m[2], kwargs)
    \/ \E i \in 1..MaxInstances : SetAttrInstance(i, Chars_state, PyInt(2))
    \/ \E i \in 1..MaxInstances, camel \in BOOLEAN, arg \in BOOLEAN :
          JsonifyInstance(i, camel, arg)
    \/ UnjsonifyInstance

SpecTrip == Init /\ [][TripNext]_vars

-----------------------------------------------------------------------------
(* Properties of the serialisation engine.                                 *)

\* jsonify has returned or raised, and unjsonify has run on what it returned
RoundTripDone ==
    /\ jsonResult # Pending
    /\ IsRaised(jsonResult) \/ unjsonResult # Pending

CaseStable(k) ==
    /\ ~InvalidIdentifier(k)
    /\ snake_case(camel_case(k).value).value = k

\* The values the round trip restores: no tuple (it comes back a list), no
\* NaN (it equals nothing), no mapping key that is one of the two reserved
\* keys (the decoder pops them), and, with camel-cased keys, every field
\* name and mapping key stable under camel_case then snake_case, no two keys
\* of one mapping sharing a camel-cased form.
RECURSIVE RoundTripSafe(_, _)
RoundTripSafe(v, camel) ==
    CASE v[1] = "float" -> ~IsNan(v[2])
      [] v[1] = "tuple" -> FALSE
      [] v[1] = "list" -> \A i \in 1..Len(v[2]) : RoundTripSafe(v[2][i], camel)
      [] v[1] = "dict" ->
            /\ DictKeys(v[2]) \cap {_MODULE_KEY, _NAME_KEY} = {}
            /\ camel => /\ \A k \in DictKeys(v[2]) : CaseStable(k)
                        /\ \A k1, k2 \in DictKeys(v[2]) :
                              camel_case(k1) = camel_case(k2) => k1 = k2
            /\ \A i \in 1..Len(v[2]) : RoundTripSafe(v[2][i][2], camel)
      [] v[1] = "dataclass" ->
            /\ camel => \A i \in 1..Len(v[2].fields) :
                            CaseStable(v[2].fields[i][1])
            /\ \A i \in 1..Len(v[2].fields) :
                  RoundTripSafe(v[2].fields[i][2], camel)
      [] OTHER -> TRUE

SpecialText(x) ==
    CASE x = "nan" -> <<"n","a","n">>
      [] x = "inf" -> <<"+","i","n","f">>
      [] x = "-inf" -> <<"-","i","n","f">>

\* C2: jsonify turns NaN, +Infinity and -Infinity into 'nan', '+inf' and
\* '-inf' when arg_struct is false, and into the mapping of $module, $type
\* (naming float) and 'x' with that same text when arg_struct is true; every
\* finite float, negative zero included, is returned unchanged; unjsonify of
\* each tagged mapping gives back NaN, +Infinity and -Infinity respectively.
C2_FloatSpecialValues ==
    (obj[1] = "float" /\ jsonResult # Pending) =>
        IF obj[2] \in {"nan", "inf", "-inf"}
        THEN /\ ~arg_struct => jsonResult = PyStr(SpecialText(obj[2]))
             /\ arg_struct =>
                   /\ jsonResult[1] = "dict"
                   /\ DictKeys(jsonResult[2]) = {_MODULE_KEY, _NAME_KEY, <<"x">>}
                   /\ DictGet(jsonResult[2], _MODULE_KEY)
                         = PyStr(<<"b","u","i","l","t","i","n","s">>)
                   /\ DictGet(jsonResult[2], _NAME_KEY)
                         = PyStr(<<"f","l","o","a","t">>)
                   /\ DictGet(jsonResult[2], <<"x">>)
                         = PyStr(SpecialText(obj[2]))
             /\ (arg_struct /\ unjsonResult # Pending) => unjsonResult = obj
        ELSE jsonResult = obj

\* -Infinity has been encoded with its tag and decoded again
C2_Witness ==
    /\ obj = PyFloat("-inf") /\ arg_struct
    /\ jsonResult[1] = "dict"
    /\ unjsonResult = PyFloat("-inf")

\* the mapping {"someReally": {"quite_nested": "thing"}}
ScenarioInput ==
    PyDict(<< <<Chars_someReally,
                PyDict(<< <<Chars_quite_nested, PyStr(Chars_thing)>> >>)>> >>)

\* C3 as the specification states it: with camel-cased keys the scenario
\* mapping is encoded as {"someReally": {"quiteNested": "thing"}}, the
\* lower-camel key unchanged.
C3_ScenarioKeepsCamelKey ==
    (obj = ScenarioInput /\ camel_case_keys /\ jsonResult # Pending)
        => jsonResult =
             PyDict(<< <<Chars_someReally,
                         PyDict(<< <<Chars_quiteNested, PyStr(Chars_thing)>> >>)>> >>)

\* C3, amended: with camel-cased keys the scenario mapping is encoded as
\* {"somereally": {"quiteNested": "thing"}}: the lower-snake key at depth two
\* becomes lower-camel, and the key already in lower-camel form is lowercased
\* as a whole, because camel_case lowercases the string before it splits it.
C3_ScenarioLowercasesCamelKey ==
    (obj = ScenarioInput /\ camel_case_keys /\ jsonResult # Pending)
        => jsonResult =
             PyDict(<< <<Chars_somereally,
                         PyDict(<< <<Chars_quiteNested, PyStr(Chars_thing)>> >>)>> >>)

\* the scenario mapping has been encoded with camel-cased keys
C3_Witness ==
    /\ obj = ScenarioInput /\ camel_case_keys
    /\ jsonResult[1] = "dict"
    /\ DictKeys(jsonResult[2]) = {Chars_somereally}

\* some character of s is no ASCII letter, digit or underscore
HasForeignChar(s) ==
    \E i \in 1..Len(s) :
        s[i] \notin (Range(ascii_lowercase) \cup Range(ascii_uppercase)
                        \cup digits \cup {"_"})

\* C4: snake_case and camel_case each raise ValueError for every input holding
\* a character outside ASCII letters, digits and underscore, wherever it
\* stands, and return without error for every other input; both map the
\* empty string to the empty string.
C4_IdentifierValidation ==
    caseResult.op # "none" =>
        /\ HasForeignChar(string) <=> caseResult.result.exc = "ValueError"
        /\ ~HasForeignChar(string) <=> caseResult.result.exc = "none"
        /\ string = <<>> => caseResult.result = Return(<<>>)

\* camel_case has refused an identifier whose last character is foreign
C4_Witness ==
    /\ Len(string) = MaxLen
    /\ ~HasForeignChar(SubSeq(string, 1, MaxLen - 1))
    /\ string[MaxLen] = "@"
    /\ caseResult.op = "camel_case"
    /\ caseResult.result.exc = "ValueError"

-----------------------------------------------------------------------------
(* Properties of the static catalog.  The unprimed variables of an action  *)
(* property are the state before the operation that last' describes.       *)

\* the table of the category a member operation named
MembersBefore == DictGet(registry, last'.cat).members

\* the name was registered in the category before the operation
NameExisted == Lower(last'.name) \in DictKeys(MembersBefore)

\* C5: defining a category whose name equals, case-insensitively, the name
\* of a category in the global table fails with StaticTypeConflict, whatever
\* the new category declares, and the global table is left as it was.
C5_CategoryNameConflict ==
    [][(/\ last'.op = "DefineCategory"
        /\ \E k \in DictKeys(registry) :
              Lower(DictGet(registry, k).name) = Lower(last'.name))
          => /\ last'.exc = "StaticTypeConflict"
             /\ registry' = registry]_vars

\* name123 has been refused because Name123, declared otherwise, is there
C5_Witness ==
    /\ last.op = "DefineCategory" /\ last.exc = "StaticTypeConflict"
    /\ last.name = Chars_name123
    /\ DictHas(registry, Lower(Chars_Name123))
    /\ DictGet(registry, Lower(Chars_Name123)).name = Chars_Name123
    /\ DictGet(registry, Lower(Chars_Name123)).annotations # last.args[1]

\* C6, for programmatic creation (a class dict of public names only):
\* creating a member under a name the category has returns the existing
\* member, the table unchanged, when the attributes supplied are the
\* existing member's fixed fields with equal values, and fails with
\* StaticInstanceConflict when they differ.
C6_MemberRecreation ==
    [][(/\ last'.op = "CreateMember"
        /\ NameExisted
        /\ \A k \in DictKeys(last'.args) : ~StartsWithUnderscore(k))
          => LET existing == DictGet(MembersBefore, Lower(last'.name))
                 fixed == SelectSeq(existing.attrs,
                              LAMBDA it : it[1] \in existing.static_fields)
             IN  IF PyEq(PyDict(last'.args), PyDict(fixed))
                 THEN /\ last'.exc = "none"
                      /\ last'.result = Lower(last'.name)
                      /\ registry' = registry
                 ELSE last'.exc = "StaticInstanceConflict"]_vars

\* C22: a class statement that defines a member whose name matches, under
\* any case variant, a member the category has fails with
\* StaticInstanceConflict and leaves the tables as they were, also when the
\* category declares no fixed field.
C22_ClassDefinitionConflict ==
    [][(/\ last'.op = "CreateMember"
        /\ NameExisted
        /\ DictHas(last'.args, Chars___qualname__))
          => /\ last'.exc = "StaticInstanceConflict"
             /\ registry' = registry]_vars

\* every key of the table is the lowercased name of its entry, no two
\* entries have names equal up to case, and iteration yields as many
\* objects as len counts, each entry once
TableKept(reg) ==
    /\ \A i \in 1..Len(reg) : reg[i][1] = Lower(reg[i][2].name)
    /\ \A i, j \in 1..Len(reg) :
          Lower(reg[i][2].name) = Lower(reg[j][2].name) => i = j
    /\ Len(__iter__(reg)) = __len__(reg)
    /\ \A i, j \in 1..__len__(reg) :
          __iter__(reg)[i] = __iter__(reg)[j] => i = j
    /\ \A i \in 1..Len(reg) : \E j \in 1..__len__(reg) : __iter__(reg)[j] = reg[i][2]

\* the operation that last' describes has registered a category
CategoryRegistered == last'.op = "DefineCategory" /\ last'.exc = "none"

\* the operation that last' describes has registered a member
MemberRegistered ==
    last'.op = "CreateMember" /\ last'.exc = "none" /\ ~NameExisted

\* C27: in the global table of categories and in the table of members of
\* every category, each key is the lowercased name of its entry and no two
\* entries have names equal up to case; len of the owner of a table counts
\* the entries registered (one more with every registration, and no other
\* operation changes it) and iteration yields each entry exactly once.
C27_RegistryTableInvariant ==
    /\ [](/\ TableKept(registry)
          /\ \A k \in DictKeys(registry) :
                TableKept(DictGet(registry, k).members))
    /\ [][/\ __len__(registry') =
               __len__(registry) + (IF CategoryRegistered THEN 1 ELSE 0)
           /\ \A k \in DictKeys(registry) :
                 __len__(DictGet(registry', k).members) =
                     __len__(DictGet(registry, k).members)
                         + (IF MemberRegistered /\ last'.cat = k
                            THEN 1 ELSE 0)]_vars

\* a category holds GoodBoy and name, and goodboy has just been refused
C27_Witness ==
    /\ last.op = "CreateMember" /\ last.exc = "StaticInstanceConflict"
    /\ last.name = Chars_goodboy
    /\ __len__(DictGet(registry, last.cat).members) = 2
    /\ DictGet(DictGet(registry, last.cat).members, Chars_goodboy).name
           = Chars_GoodBoy
    /\ __len__(registry) > __len__(ImportedRegistry)

\* the member an instance was constructed from
MemberOf(inst) == TheMember(registry, inst.cat, inst.member)

\* C7: on an instance of a member, assigning to a fixed field fails with
\* AttributeError and the field still reads its definition-time value;
\* assigning to a mutable field succeeds and the instance reads the new
\* value.
C7_FixedFieldWriteProtection ==
    last.op = "SetAttrInstance" =>
        LET inst == instances[last.inst]
            name_ == last.args[1]
        IN  /\ name_ \in MemberOf(inst).static_fields
                  => /\ last.exc = "AttributeError"
                     /\ InstanceGetattr(MemberOf(inst), inst.dict, name_)
                           = DictGet(MemberOf(inst).defined, name_)
            /\ name_ \in Range(MemberOf(inst).annotations)
                  => /\ last.exc = "none"
                     /\ InstanceGetattr(MemberOf(inst), inst.dict, name_)
                           = last.args[2]

\* C8: the value read for each fixed field of a registered member, from the
\* member and from each of its instances, is the value it was defined with,
\* in every state; and every assignment to a fixed field, on an instance or
\* on the member, fails.
C8_FixedValuesNeverMutated ==
    /\ \A cat \in Defined :
          \A mem \in DictKeys(DictGet(registry, cat).members) :
             \A k \in TheMember(registry, cat, mem).static_fields :
                MemberGetattr(TheMember(registry, cat, mem), k)
                   = DictGet(TheMember(registry, cat, mem).defined, k)
    /\ \A i \in 1..Len(instances) :
          \A k \in MemberOf(instances[i]).static_fields :
             InstanceGetattr(MemberOf(instances[i]), instances[i].dict, k)
                = DictGet(MemberOf(instances[i]).defined, k)
    /\ last.op = "SetAttrMember" => last.exc # "none"
    /\ (/\ last.op = "SetAttrInstance"
        /\ last.args[1] \in MemberOf(instances[last.inst]).static_fields)
          => last.exc # "none"

\* the fields a category marks as fixed, and those it declares without
MarkedFixed(mcs) ==
    {k \in Range(mcs.annotations) :
        DictHas(mcs.attrs, k) /\ DictGet(mcs.attrs, k) = STATIC}

DeclaredMutable(mcs) == Range(mcs.annotations) \ MarkedFixed(mcs)

\* the public names a definition supplies
Supplied(class_dict) ==
    {k \in DictKeys(class_dict) : ~StartsWithUnderscore(k)}

C10_FailedDefinitionDoesNotRegister ==
    [][(/\ last'.op = "CreateMember"
        /\ last'.exc \in {"ExpectedStaticAttr", "UnexpectedStaticAttr",
                          "StaticInstanceConflict"})
          => /\ registry' = registry
             /\ Len(DictGet(registry', last'.cat).members)
                   = Len(MembersBefore)]_vars

\* a definition lacking the fixed field has failed in a category that has
\* no members
C10_Witness ==
    /\ last.op = "CreateMember" /\ last.exc = "ExpectedStaticAttr"
    /\ DictGet(registry, last.cat).members = <<>>

\* C11: after a member named N is registered in a category, attribute lookup
\* on the category under every case variant of N gives that member and the
\* membership test holds for every case variant of N; lookup of a name
\* registered under no case variant fails with AttributeError.
C11_CaseInsensitiveLookup ==
    \A cat \in Defined : \A n \in MemberNames :
        LET mcs == DictGet(registry, cat)
        IN  IF Lower(n) \in DictKeys(mcs.members)
            THEN /\ getattr(mcs, n) = Found("registered", Lower(n))
                 /\ __contains__(mcs.members, n)
            ELSE getattr(mcs, n).how = "AttributeError"

-----------------------------------------------------------------------------
(* Properties of the decoder on trees received from elsewhere.             *)

\* the tree handed to unjsonify is a mapping with both reserved keys
Tagged(json) ==
    /\ json[1] = "dict"
    /\ DictHas(json[2], _MODULE_KEY) /\ DictHas(json[2], _NAME_KEY)

\* the module named is none of the importable ones
NoSuchModule(json) ==
    \A c \in namespace : PyStr(c.module) # DictGet(json[2], _MODULE_KEY)

\* the module has no attribute of the name given
NoSuchAttribute(json) ==
    \A c \in namespace :
        ~(/\ PyStr(c.module) = DictGet(json[2], _MODULE_KEY)
          /\ PyStr(c.name) = DictGet(json[2], _NAME_KEY))

\* C12: when a mapping carries both reserved keys, as strings, and the
\* module named cannot be located or has no attribute of the name given,
\* unjsonify raises ValueError, with camel-cased keys and without.
C12_UnresolvableTypeTag ==
    (/\ Tagged(jsonResult)
     /\ DictGet(jsonResult[2], _MODULE_KEY)[1] = "str"
     /\ DictGet(jsonResult[2], _NAME_KEY)[1] = "str"
     /\ NoSuchModule(jsonResult) \/ NoSuchAttribute(jsonResult)
     /\ unjsonResult # Pending)
        => unjsonResult = Raised("ValueError")

\* no mapping of the tree carries both reserved keys
RECURSIVE Untagged(_)
Untagged(json) ==
    CASE json[1] = "dict" ->
            /\ ~Tagged(json)
            /\ \A i \in 1..Len(json[2]) : Untagged(json[2][i][2])
      [] json[1] = "list" -> \A i \in 1..Len(json[2]) : Untagged(json[2][i])
      [] OTHER -> TRUE

\* every key of every mapping of the tree, the reserved keys apart, is made
\* of ASCII letters, digits and underscores
RECURSIVE IdentifierKeys(_)
IdentifierKeys(json) ==
    CASE json[1] = "dict" ->
            \A i \in 1..Len(json[2]) :
                /\ json[2][i][1] \in {_MODULE_KEY, _NAME_KEY}
                       \/ ~InvalidIdentifier(json[2][i][1])
                /\ IdentifierKeys(json[2][i][2])
      [] json[1] = "list" -> \A i \in 1..Len(json[2]) : IdentifierKeys(json[2][i])
      [] OTHER -> TRUE

\* the data entries of a mapping: those whose key is not reserved
DataItems(items) ==
    SelectSeq(items, LAMBDA it : it[1] \notin {_MODULE_KEY, _NAME_KEY})

\* What C14 expects of an untagged tree: every data entry kept with its
\* value treated likewise, its key through snake_case when camel-cased keys
\* are expected and unchanged otherwise; of entries whose keys convert to
\* one key the last is kept.
RECURSIVE PlainDecoded(_, _)
PlainDecoded(json, camel) ==
    CASE json[1] = "dict" ->
            LET items == DataItems(json[2])
                vals == [i \in 1..Len(items) |->
                            <<items[i][1], PlainDecoded(items[i][2], camel)>>]
            IN  PyDict(ReKey(vals,
                             LAMBDA k : IF camel THEN snake_case(k).value ELSE k,
                             <<>>))
      [] json[1] = "list" ->
            PyList([i \in 1..Len(json[2]) |-> PlainDecoded(json[2][i], camel)])
      [] OTHER -> json

\* the data entries of what unjsonify returned equal those expected
DecodedAsPlain ==
    /\ unjsonResult[1] = "dict"
    /\ PyEq(PyDict(DataItems(unjsonResult[2])),
            PlainDecoded(jsonResult, camel_case_keys))

\* C14 as the specification states it: unjsonify of any mapping that lacks
\* $module or $type returns a plain mapping of the recursively decoded
\* values, every key at every depth through snake_case when camel-cased keys
\* are expected, and unchanged otherwise.
C14_UntaggedMappingAlwaysDecodes ==
    (/\ obj = PyNone /\ jsonResult[1] = "dict" /\ Untagged(jsonResult)
     /\ unjsonResult # Pending)
        => DecodedAsPlain

\* C14, amended: the same, for the mappings whose keys, at every depth, are
\* identifiers when camel-cased keys are expected; the others make
\* unjsonify raise ValueError.
C14_UntaggedMappingDecodes ==
    (/\ obj = PyNone /\ jsonResult[1] = "dict" /\ Untagged(jsonResult)
     /\ unjsonResult # Pending)
        => IF camel_case_keys /\ ~IdentifierKeys(jsonResult)
           THEN unjsonResult = Raised("ValueError")
           ELSE DecodedAsPlain

\* {"someReally": {"quiteNested": "thing"}} has been decoded, camel-cased
\* keys expected, to {"some_really": {"quite_nested": "thing"}}
C14_Witness ==
    /\ camel_case_keys
    /\ jsonResult =
          PyDict(<< <<Chars_someReally,
                      PyDict(<< <<Chars_quiteNested, PyStr(Chars_thing)>> >>)>> >>)
    /\ unjsonResult =
          PyDict(<< <<<<"s","o","m","e","_","r","e","a","l","l","y">>,
                      PyDict(<< <<Chars_quite_nested, PyStr(Chars_thing)>> >>)>> >>)

-----------------------------------------------------------------------------
(* Properties of the catalog behind the decoder.                           *)

\* C13, for a tag that resolves to a category: when the remaining keys do
\* not fit the definition of a new member (no name, a fixed field missing,
\* or a mutable field supplied), unjsonify raises ValueError, with
\* camel-cased keys and without.
C13_ConstructionArgumentMismatch ==
    [][(/\ last'.op = "unjsonify"
        /\ ~NameExisted
        /\ LET mcs == DictGet(registry, last'.cat)
           IN  \/ last'.name = <<>>
               \/ MarkedFixed(mcs) \ DictKeys(last'.args) # {}
               \/ DictKeys(last'.args) \cap DeclaredMutable(mcs) # {})
          => last'.exc = "ValueError"]_vars

\* C19: unjsonify of a mapping tagged with a category and carrying a name
\* and fixed-field values returns the registered member, the registry
\* unchanged, when the name exists in the category with equal fixed values
\* (so that a repeated decode returns the member again); for a name not
\* registered it creates the member with those values, registers it in the
\* category and returns it.
C19_DecodingCatalogMember ==
    [][(/\ last'.op = "unjsonify"
        /\ last'.name # <<>>
        /\ DictKeys(last'.args) = MarkedFixed(DictGet(registry, last'.cat)))
          => IF NameExisted
             THEN LET existing == DictGet(MembersBefore, Lower(last'.name))
                  IN  PyEq(PyDict(last'.args),
                           PyDict(ExistingClassDict(existing)))
                         => /\ last'.exc = "none"
                            /\ last'.result = Lower(last'.name)
                            /\ registry' = registry
             ELSE /\ last'.exc = "none"
                  /\ last'.result = Lower(last'.name)
                  /\ LET new == TheMember(registry', last'.cat, last'.result)
                     IN  /\ new.name = last'.name
                         /\ PyEq(PyDict(ExistingClassDict(new)),
                                 PyDict(last'.args))
                  /\ registry' # registry]_vars

\* the entries C18 expects for a member: its name and its fixed fields, the
\* values encoded and the keys camel-cased on request, and the tag of its
\* category if and only if arg_struct
ExpectedMemberJson(reg, cat, mem, camel, arg) ==
    LET mcs == DictGet(reg, cat)
        member == DictGet(mcs.members, mem)
        fixed == ExistingClassDict(member)
        named == DictSet(fixed, Chars_name, PyStr(member.name))
        data == [i \in 1..Len(named) |->
                    <<IF camel THEN camel_case(named[i][1]).value
                               ELSE named[i][1],
                      jsonify(Resolve(reg, named[i][2]), camel, arg)>>]
    IN  IF arg
        THEN PyDict(data \o << <<_MODULE_KEY, PyStr(Chars_pygot_static)>>,
                               <<_NAME_KEY, PyStr(mcs.name)>> >>)
        ELSE PyDict(data)

\* C18: jsonify of a member returns a mapping of its name and its fixed
\* fields, the values encoded and the keys camel-cased if and only if
\* camel_case_keys, with the reserved keys naming its category if and only
\* if arg_struct.
C18_EncodingCatalogMember ==
    last.op = "jsonify"
        => /\ last.exc = "none"
           /\ last.result = ExpectedMemberJson(registry, last.cat, last.name,
                                               last.args[1], last.args[2])

-----------------------------------------------------------------------------
(* Properties of instances on the wire.                                    *)

\* what C20 expects jsonify to return for the instance just encoded: the
\* mutable fields of its category with the values the instance holds, and
\* the module and name of its member if and only if arg_struct
ExpectedInstanceJson ==
    LET inst == instances[last.inst]
        mcs == DictGet(registry, inst.cat)
        member == TheMember(registry, inst.cat, inst.member)
        mutable == DynamicAttrs(mcs)
        data == [i \in 1..Len(mutable) |->
                    <<IF camel_case_keys THEN camel_case(mutable[i]).value
                                         ELSE mutable[i],
                      jsonify(DictGet(inst.dict, mutable[i]),
                              camel_case_keys, arg_struct)>>]
    IN  IF arg_struct
        THEN PyDict(data \o << <<_MODULE_KEY, PyStr(Chars_pygot_static)>>,
                               <<_NAME_KEY, PyStr(member.name)>> >>)
        ELSE PyDict(data)

\* the instance just encoded has been given exactly the entries expected,
\* and no fixed field among them
InstanceEncoded ==
    (last.op = "jsonify" /\ last.inst > 0)
        => /\ last.exc = "none"
           /\ PyEq(jsonResult, ExpectedInstanceJson)
           /\ \A f \in TheMember(registry, last.cat, last.name).static_fields :
                 ~DictHas(jsonResult[2], f)

\* the tagged output just decoded has given a new instance, equal to the
\* one encoded
InstanceDecoded ==
    /\ last.exc = "none"
    /\ last.inst = Len(instances)
    /\ unjsonResult[1] = "dataclass"
    /\ PyEq(unjsonResult, obj)
    /\ PyEq(InstanceValue(TheMember(registry, instances[last.inst].cat,
                                    instances[last.inst].member),
                          instances[last.inst].dict),
            obj)

\* the member whose instance was encoded is bound under its name in the
\* module its tag names
MemberBound ==
    \E m \in ModuleMembers :
        TheMember(ImportedRegistry, m[1], m[2]).name = obj[2].name

\* C20 as stated: jsonify of an instance of a member returns exactly the
\* mutable fields of the category with the instance's values, never a fixed
\* field, tagged with the member's module and name when arg_struct; and
\* unjsonify of the tagged output, under the same camel_case_keys, returns
\* a distinct instance equal to the original, whatever the member.
C20_InstanceRoundTripOfEveryMember ==
    /\ InstanceEncoded
    /\ (last.op = "unjsonify" /\ arg_struct) => InstanceDecoded

\* C20 amended: the encoding is as stated; unjsonify of the tagged output
\* returns a distinct instance equal to the original when the member is
\* bound under its name in the module its tag names, and raises ValueError
\* when it is not.
C20_InstanceRoundTripOfBoundMembers ==
    /\ InstanceEncoded
    /\ (last.op = "unjsonify" /\ arg_struct)
          => IF MemberBound THEN InstanceDecoded
             ELSE /\ unjsonResult = Raised("ValueError")
                  /\ last.inst = 0

\* Footman(state={"quite_nested": 2}) has been encoded with camel-cased
\* keys and the tag, and decoded into a second instance
C20_Witness ==
    /\ last.op = "unjsonify" /\ arg_struct /\ camel_case_keys
    /\ obj[2].name = Chars_Footman
    /\ DictHas(jsonResult[2], Chars_state)
    /\ DictGet(jsonResult[2], Chars_state) =
          PyDict(<< <<Chars_quiteNested, PyInt(2)>> >>)
    /\ unjsonResult[1] = "dataclass"
    /\ Len(instances) = 2

-----------------------------------------------------------------------------
(* Properties of the encoder over every category of value.                 *)

ReservedKeys == {_MODULE_KEY, _NAME_KEY}

\* the keys of out are those of o, camel-cased or unchanged, at every depth,
\* the reserved keys apart; with override, what a to_json override returned
\* is expected as to_json returned it
RECURSIVE KeysCased(_, _, _, _)
KeysCased(o, out, camel, override) ==
    CASE o[1] \in {"list", "tuple"} ->
            /\ out[1] = "list"
            /\ Len(out[2]) = Len(o[2])
            /\ \A i \in 1..Len(o[2]) :
                  KeysCased(o[2][i], out[2][i], camel, override)
      [] o[1] = "jsonmixin" /\ override ->
            /\ out[1] = "dict"
            /\ DictWithout(DictWithout(out[2], _MODULE_KEY), _NAME_KEY) =
                  to_json(o)[2]
      [] o[1] \in {"dict", "dataclass", "jsonmixin"} ->
            LET items == IF o[1] = "dict" THEN o[2] ELSE o[2].fields
                cased(k) == IF camel THEN camel_case(k).value ELSE k
            IN  /\ out[1] = "dict"
                /\ DictKeys(out[2]) \ ReservedKeys =
                      {cased(k) : k \in DictKeys(items) \ ReservedKeys}
                /\ \A K \in DictKeys(out[2]) \ ReservedKeys :
                      \E i \in 1..Len(items) :
                         /\ items[i][1] \notin ReservedKeys
                         /\ cased(items[i][1]) = K
                         /\ KeysCased(items[i][2], DictGet(out[2], K),
                                      camel, override)
      [] OTHER -> TRUE

\* C15 as stated: in what jsonify returns, every key of every mapping and
\* record, at every depth and for every category of value, the reserved
\* keys apart, is camel_case of the original key when camel_case_keys is
\* enabled, and the original key when it is disabled.
C15_KeyCasingOfEveryCategory ==
    (jsonResult # Pending /\ ~IsRaised(jsonResult))
        => KeysCased(obj, jsonResult, camel_case_keys, FALSE)

\* C15 amended: the same for the keys of mappings and of dataclass
\* instances; what the to_json override of a value returned is emitted with
\* the keys to_json gave it, whatever camel_case_keys is.
C15_KeyCasingOutsideOverrides ==
    (jsonResult # Pending /\ ~IsRaised(jsonResult))
        => KeysCased(obj, jsonResult, camel_case_keys, TRUE)

\* Record(quite_nested={"quite_nested": 1}) has been encoded with
\* camel-cased keys: {"quiteNested": {"quiteNested": 1}} and the tag
C15_Witness ==
    /\ camel_case_keys /\ obj[1] = "dataclass"
    /\ obj[2].fields =
          << <<Chars_quite_nested,
               PyDict(<< <<Chars_quite_nested, PyInt(1)>> >>)>> >>
    /\ jsonResult # Pending
    /\ DictGet(jsonResult[2], Chars_quiteNested) =
          PyDict(<< <<Chars_quiteNested, PyInt(1)>> >>)

\* the values decoded, the reserved keys removed: what unjsonify hands to
\* from_json
DecodedMapping(json, camel, ns) ==
    DictWithout(DictWithout([i \in 1..Len(json[2]) |->
                                <<json[2][i][1],
                                  unjsonify(json[2][i][2], camel, ns)>>],
                            _MODULE_KEY), _NAME_KEY)

\* C16: for an instance of a JSONMixin dataclass jsonify returns the
\* mapping to_json returned, its keys and values as to_json left them
\* whatever camel_case_keys is, with $module and $type of the class added
\* if and only if arg_struct; unjsonify of the tagged mapping returns
\* from_json of the decoded mapping without the two reserved keys.
C16_CustomOverride ==
    (obj[1] = "jsonmixin" /\ jsonResult # Pending)
        => /\ jsonResult[1] = "dict"
           /\ DictWithout(DictWithout(jsonResult[2], _MODULE_KEY), _NAME_KEY)
                 = to_json(obj)[2]
           /\ arg_struct <=> DictHas(jsonResult[2], _MODULE_KEY)
           /\ arg_struct <=> DictHas(jsonResult[2], _NAME_KEY)
           /\ arg_struct => /\ DictGet(jsonResult[2], _MODULE_KEY) = PyStr(Chars_app)
                            /\ DictGet(jsonResult[2], _NAME_KEY) = PyStr(Chars_Mixed)
           /\ (arg_struct /\ unjsonResult # Pending)
                 => unjsonResult =
                       from_json(CHOOSE c \in namespace : c.name = Chars_Mixed,
                                 DecodedMapping(jsonResult, camel_case_keys,
                                                namespace))

\* Mixed(quite_nested=nan) has been encoded with camel_case_keys disabled,
\* its key camel-cased by to_json and its NaN left in place, and decoded
\* into an instance of Mixed
C16_Witness ==
    /\ obj[1] = "jsonmixin" /\ ~camel_case_keys /\ arg_struct
    /\ jsonResult # Pending
    /\ DictHas(jsonResult[2], Chars_quiteNested)
    /\ DictGet(jsonResult[2], Chars_quiteNested) = PyFloat("nan")
    /\ unjsonResult[1] = "jsonmixin"

\* no value of a type without a handler at any depth
RECURSIVE Supported(_)
Supported(v) ==
    CASE v[1] \in {"str", "int", "float", "bool", "none"} -> TRUE
      [] v[1] \in {"list", "tuple"} ->
            \A i \in 1..Len(v[2]) : Supported(v[2][i])
      [] v[1] = "dict" -> \A i \in 1..Len(v[2]) : Supported(v[2][i][2])
      [] v[1] \in {"dataclass", "jsonmixin"} ->
            \A i \in 1..Len(v[2].fields) : Supported(v[2].fields[i][2])
      [] OTHER -> FALSE

\* strings, integers, finite floats, booleans, None, sequences and
\* string-keyed mappings of such
RECURSIVE JsonSafe(_)
JsonSafe(v) ==
    CASE v[1] \in {"str", "int", "bool", "none"} -> TRUE
      [] v[1] = "float" -> ~IsInf(v[2]) /\ ~IsNan(v[2])
      [] v[1] \in {"list", "tuple"} ->
            \A i \in 1..Len(v[2]) : JsonSafe(v[2][i])
      [] v[1] = "dict" -> \A i \in 1..Len(v[2]) : JsonSafe(v[2][i][2])
      [] OTHER -> FALSE

\* C17: for every input that holds no value of an unsupported type at any
\* depth, and every camel_case_keys and arg_struct, what jsonify returns is
\* JSON-safe.
C17_OnlyUnsupportedIsUnsafe ==
    (jsonResult # Pending /\ ~IsRaised(jsonResult) /\ Supported(obj))
        => JsonSafe(jsonResult)

-----------------------------------------------------------------------------
(* Properties of the case converters, character by character.              *)

\* the characters of s in order, a non-letter and a lowercase letter
\* unchanged, an uppercase letter lowered and prefixed with '_' when the
\* character before it is not an uppercase letter; atStart says whether an
\* uppercase letter at the start of the string is prefixed as well
RECURSIVE SnakeByRule(_, _, _)
SnakeByRule(s, i, atStart) ==
    IF i > Len(s) THEN <<>>
    ELSE LET newWord == IF i = 1 THEN atStart ELSE ~IsUpper(s[i - 1])
         IN  (IF IsUpper(s[i])
              THEN (IF newWord THEN <<"_">> ELSE <<>>) \o <<LowerChar(s[i])>>
              ELSE <<s[i]>>)
             \o SnakeByRule(s, i + 1, atStart)

\* C24 as stated: snake_case emits the characters in order, non-letters and
\* lowercase letters unchanged and uppercase letters lowered, an uppercase
\* letter prefixed with '_' exactly when a non-uppercase character precedes
\* it or it stands at the start of the string.
C24_BoundaryAlsoAtStart ==
    (caseResult.op = "snake_case" /\ caseResult.result.exc = "none")
        => caseResult.result.value = SnakeByRule(string, 1, TRUE)

\* C24 amended: the same, an uppercase letter prefixed with '_' exactly
\* when a non-uppercase character precedes it; at the start of the string
\* it is not prefixed.
C24_BoundaryAfterNonUppercase ==
    (caseResult.op = "snake_case" /\ caseResult.result.exc = "none")
        => caseResult.result.value = SnakeByRule(string, 1, FALSE)

\* snake_case("Ab2B") has returned "ab2_b"
C24_Witness ==
    /\ caseResult.op = "snake_case"
    /\ string = <<"A","b","2","B">>
    /\ caseResult.result = Return(<<"a","b","2","_","b">>)

\* where the character at i of s stands in snake_case(s): one place further
\* for every uppercase letter up to i that follows a non-uppercase character
PlaceOf(s, i) ==
    i + Cardinality({j \in 2..i : IsUpper(s[j]) /\ ~IsUpper(s[j - 1])})

\* C25: for every valid identifier an uppercase run at the start gets no
\* underscore ('KeyWord' gives 'key_word', 'KEY' gives 'key'), so the output
\* begins with '_' only if the input does; an uppercase letter elsewhere is
\* prefixed with '_' exactly when the character before it is not an
\* uppercase letter ('one2Three' gives 'one2_three').
C25_SnakeCaseAtStart ==
    /\ snake_case(<<"K","e","y","W","o","r","d">>) =
          Return(<<"k","e","y","_","w","o","r","d">>)
    /\ snake_case(<<"K","E","Y">>) = Return(<<"k","e","y">>)
    /\ snake_case(<<"o","n","e","2","T","h","r","e","e">>) =
          Return(<<"o","n","e","2","_","t","h","r","e","e">>)
    /\ (caseResult.op = "snake_case" /\ caseResult.result.exc = "none")
          => LET out == caseResult.result.value
             IN  /\ Len(out) = PlaceOf(string, Len(string))
                 /\ (out # <<>> /\ out[1] = "_") => string[1] = "_"
                 /\ \A i \in 1..Len(string) :
                       /\ out[PlaceOf(string, i)] = LowerChar(string[i])
                       /\ (i > 1 /\ IsUpper(string[i]))
                             => LET gap == PlaceOf(string, i)
                                              - PlaceOf(string, i - 1)
                                IN  /\ gap = 2 <=> ~IsUpper(string[i - 1])
                                    /\ gap = 2
                                          => out[PlaceOf(string, i) - 1] = "_"
                                    /\ gap \in {1, 2}

\* snake_case("ABaB") has returned "aba_b"
C25_Witness ==
    /\ caseResult.op = "snake_case"
    /\ string = <<"A","B","a","B">>
    /\ caseResult.result = Return(<<"a","b","a","_","b">>)

\* the segments of string.lower().split('_') emitted one by one: an empty
\* segment as '_', the first segment as it is and each later one
\* capitalized; the first segment is segment 1, or, with skipEmpty, the
\* first segment that is not empty
RECURSIVE CamelByRule(_, _, _)
CamelByRule(segs, k, skipEmpty) ==
    IF k > Len(segs) THEN <<>>
    ELSE LET first == IF skipEmpty
                      THEN \A j \in 1..(k - 1) : segs[j] = <<>>
                      ELSE k = 1
         IN  (IF segs[k] = <<>> THEN <<"_">>
              ELSE IF first THEN segs[k]
              ELSE Capitalize(segs[k]))
             \o CamelByRule(segs, k + 1, skipEmpty)

\* C26 as stated: camel_case splits on '_', emits the first segment
\* lowercased, each subsequent segment lowercased with its first character
\* capitalized, and each empty segment as a single '_'.
C26_FirstSegmentLowercased ==
    (caseResult.op = "camel_case" /\ caseResult.result.exc = "none")
        => caseResult.result.value =
              CamelByRule(Split(Lower(string), "_"), 1, FALSE)

\* C26 amended: the empty string is returned as it is; otherwise each empty
\* segment is emitted as a single '_', the first segment that is not empty
\* lowercased, and each later segment that is not empty lowercased with its
\* first character capitalized.
C26_FirstNonEmptySegmentLowercased ==
    (caseResult.op = "camel_case" /\ caseResult.result.exc = "none")
        => caseResult.result.value =
              IF string = <<>> THEN <<>>
              ELSE CamelByRule(Split(Lower(string), "_"), 1, TRUE)

\* camel_case("_a_b") has returned "_aB"
C26_Witness ==
    /\ caseResult.op = "camel_case"
    /\ string = <<"_","a","_","b">>
    /\ caseResult.result = Return(<<"_","a","B">>)

\* a lower-snake identifier whose segments are all non-empty and each
\* begin with a lowercase letter
WellFormedSnake(s) ==
    /\ s # <<>>
    /\ \A i \in 1..Len(s) : IsLower(s[i]) \/ s[i] \in digits \/ s[i] = "_"
    /\ \A k \in 1..Len(Split(s, "_")) :
          /\ Split(s, "_")[k] # <<>>
          /\ IsLower(Split(s, "_")[k][1])

\* a lower-camel identifier: it starts with a lowercase letter and has no
\* underscore and no two adjacent uppercase letters
WellFormedCamel(t) ==
    /\ t # <<>>
    /\ IsLower(t[1])
    /\ \A i \in 1..Len(t) : t[i] # "_"
    /\ \A i \in 2..Len(t) : ~(IsUpper(t[i - 1]) /\ IsUpper(t[i]))

\* every segment between the first and the last has two characters or more
InnerSegmentsLong(s) ==
    \A k \in 2..(Len(Split(s, "_")) - 1) : Len(Split(s, "_")[k]) >= 2

-----------------------------------------------------------------------------
(* Properties of the entries of mappings.                                  *)

\* C28: when unjsonify returns a plain mapping because a reserved key is
\* absent, the result has one entry for every entry of the input; a mapping
\* holding exactly one of $module and $type keeps that key and its value.
C28_DecodingKeepsEntries ==
    (/\ jsonResult[1] = "dict"
     /\ ReservedKeys \ DictKeys(jsonResult[2]) # {}
     /\ unjsonResult # Pending /\ ~IsRaised(unjsonResult))
        => /\ unjsonResult[1] = "dict"
           /\ Len(unjsonResult[2]) = Len(jsonResult[2])
           /\ \A k \in ReservedKeys \cap DictKeys(jsonResult[2]) :
                 /\ DictHas(unjsonResult[2], k)
                 /\ DictGet(unjsonResult[2], k) = DictGet(jsonResult[2], k)

\* C29: for every mapping whose keys are valid identifiers, jsonify with
\* camel_case_keys enabled returns a mapping of as many entries: no two
\* keys are rendered as the same key.  It is stated on the mappings whose
\* values are strings, integers, booleans and None, which jsonify returns
\* as they are.
C29_EncodingKeepsEntries ==
    (/\ obj[1] = "dict" /\ camel_case_keys
     /\ \A i \in 1..Len(obj[2]) :
            /\ ~InvalidIdentifier(obj[2][i][1])
            /\ obj[2][i][2][1] \in {"str", "int", "bool", "none"}
     /\ jsonResult # Pending)
        => /\ jsonResult[1] = "dict"
           /\ Len(jsonResult[2]) = Len(obj[2])

-----------------------------------------------------------------------------
(* Properties of game ids and names.                                       *)

\* C23: for every id n in 0..999, name_to_id(id_to_name(n)) is n, and no
\* other id of 0..999 has the name of n (the names are 1000); id_to_name
\* fails with ValueError for every n below 0 and every n above 999.
C23_GameIdNameMapping ==
    /\ caseResult.op = "id_to_name" =>
          IF obj[2] \in 0..999
          THEN /\ caseResult.result.exc = "none"
               /\ \A m \in 0..999 :
                     id_to_name(m) = caseResult.result => m = obj[2]
          ELSE caseResult.result = Raise("ValueError")
    /\ caseResult.op = "id_to_name, name_to_id" =>
          /\ obj[2] \in 0..999
          /\ caseResult.result = Return(obj[2])

\* 584 has been named big-black-snake, and the name read back
C23_Witness ==
    /\ obj = PyInt(584)
    /\ caseResult.op = "id_to_name, name_to_id"
    /\ string = <<"b","i","g","-","b","l","a","c","k","-","s","n","a","k","e">>
    /\ caseResult.result = Return(584)

-----------------------------------------------------------------------------
(* Properties of timestamps.                                               *)

\* days before the first of January of year y, as datetime counts them
DaysBeforeYear(y) ==
    (y - 1) * 365 + ((y - 1) \div 4) - ((y - 1) \div 100) + ((y - 1) \div 400)

RECURSIVE DaysBeforeMonth(_, _)
DaysBeforeMonth(y, m) ==
    IF m = 1 THEN 0 ELSE DaysBeforeMonth(y, m - 1) + DaysInMonth(y, m - 1)

Ordinal(y, m, d) == DaysBeforeYear(y) + DaysBeforeMonth(y, m) + d

\* The instant an aware datetime denotes: the day and the minute of the
\* day in UTC, the second and the microsecond.
InstantOf(dt) ==
    LET m == dt.hour * 60 + dt.minute - dt.tzinfo.offset
    IN  <<Ordinal(dt.year, dt.month, dt.day) + (IF m < 0 THEN 0 - 1
                                               ELSE IF m >= 1440 THEN 1 ELSE 0),
          (m + 1440) % 1440, dt.second, dt.microsecond>>

\* the instant lies in the years 1..9999 of UTC
UtcRepresentable(dt) ==
    /\ InstantOf(dt)[1] >= Ordinal(1, 1, 1)
    /\ InstantOf(dt)[1] <= Ordinal(9999, 12, 31)

\* the mapping is tagged as date_time, names the zone UTC, and its
\* components are a date and a time of day that, read as UTC, denote the
\* instant of obj
CoercedToUTC ==
    /\ jsonResult[1] = "dict"
    /\ [i \in 1..Len(jsonResult[2]) |-> jsonResult[2][i][1]] =
          <<_MODULE_KEY, _NAME_KEY, Chars_year, Chars_month, Chars_day,
            Chars_hour, Chars_minute, Chars_second, Chars_microsecond,
            Chars_timezone>>
    /\ DictGet(jsonResult[2], _MODULE_KEY) = PyStr(Chars_pygot_serialisation)
    /\ DictGet(jsonResult[2], _NAME_KEY) = PyStr(Chars_date_time)
    /\ DictGet(jsonResult[2], Chars_timezone) = PyStr(Chars_UTC)
    /\ LET c(k) == DictGet(jsonResult[2], k)[2]
       IN  /\ c(Chars_month) \in 1..12
           /\ c(Chars_day) \in 1..DaysInMonth(c(Chars_year), c(Chars_month))
           /\ c(Chars_hour) \in 0..23 /\ c(Chars_minute) \in 0..59
           /\ InstantOf(DateTime(c(Chars_year), c(Chars_month), c(Chars_day),
                                 c(Chars_hour), c(Chars_minute),
                                 c(Chars_second), c(Chars_microsecond),
                                 PytzUTC)) = InstantOf(obj[2])

\* what was decoded is zoned pytz.utc and denotes the instant of obj
DecodedAsUTC ==
    /\ unjsonResult[1] = "datetime"
    /\ unjsonResult[2].tzinfo = PytzUTC
    /\ InstantOf(unjsonResult[2]) = InstantOf(obj[2])

\* 2020-04-29 14:15:16.000789 at +10 minutes is encoded with minute 5
TestCaseCustomTz ==
    LET json == _jsonify_datetime(
                    PyDatetime(DateTime(2020, 4, 29, 14, 15, 16, 789,
                                        CustomTZ(10))), TRUE, TRUE)
        c(k) == DictGet(json[2], k)
    IN  /\ <<c(Chars_year), c(Chars_month), c(Chars_day)>> =
              <<PyInt(2020), PyInt(4), PyInt(29)>>
        /\ <<c(Chars_hour), c(Chars_minute)>> = <<PyInt(14), PyInt(5)>>
        /\ <<c(Chars_second), c(Chars_microsecond)>> = <<PyInt(16), PyInt(789)>>
        /\ c(Chars_timezone) = PyStr(Chars_UTC)

\* C21: a timestamp whose tzinfo is neither pytz's nor timezone.utc is
\* encoded with arg_struct as its UTC equivalent: the components shifted by
\* the offset of the zone (14:15 at +10 minutes gives minute 5) and
\* timezone 'UTC'; decoding that mapping gives a timestamp zoned UTC that
\* denotes the same instant.
C21_UnknownZoneCoercedToUTC ==
    (/\ obj[1] = "datetime" /\ obj[2].tzinfo.kind = "custom"
     /\ arg_struct /\ jsonResult # Pending)
        => /\ TestCaseCustomTz
           /\ CoercedToUTC
           /\ unjsonResult # Pending => DecodedAsUTC

\* C21, amended: the same of every such timestamp whose instant lies in
\* the years 1..9999 of UTC; for the others jsonify fails with
\* OverflowError.
C21_UnknownZoneCoercedToUTCInRange ==
    (/\ obj[1] = "datetime" /\ obj[2].tzinfo.kind = "custom"
     /\ arg_struct /\ jsonResult # Pending)
        => IF UtcRepresentable(obj[2])
           THEN /\ TestCaseCustomTz
                /\ CoercedToUTC
                /\ unjsonResult # Pending => DecodedAsUTC
           ELSE jsonResult = Raised("OverflowError")

\* 2020-03-01 00:05 at +10 minutes has been encoded as 2020-02-29 23:55
\* UTC and decoded
C21_Witness ==
    /\ obj = PyDatetime(DateTime(2020, 3, 1, 0, 5, 16, 789, CustomTZ(10)))
    /\ arg_struct
    /\ jsonResult[1] = "dict"
    /\ DictGet(jsonResult[2], Chars_day) = PyInt(29)
    /\ DictGet(jsonResult[2], Chars_hour) = PyInt(23)
    /\ unjsonResult =
          PyDatetime(DateTime(2020, 2, 29, 23, 55, 16, 789, PytzUTC))

=============================================================================
